---- MODULE Spec2Model ----
(***************************************************************************)
(* Model of the decorators of the bling library: Retry, Timeout,           *)
(* CircuitBreaker, Fallback, DebounceSync, DebounceAsync, ThrottleSync and *)
(* ThrottleAsync (resilience decorators), RateLimited, Cached and Memoize  *)
(* (validation decorators), Schedule, Interval, Timeout and cleanup        *)
(* (scheduling decorators) and Observable (field decorator).               *)
(* Each decorator is a state machine whose actions are the                 *)
(* synchronous turns of the JavaScript event loop: the wrapper call, the   *)
(* settlement of a promise returned by the wrapped method, the firing of   *)
(* a timer, and the passage of time.                                       *)
(***************************************************************************)
EXTENDS Integers, Sequences, FiniteSets, TLC

VARIABLES
    \* ---- Retry: one call of replacementMethod -------------------------
    retryOptions,   \* the RetryOptions the decorator was built with
    attempts,       \* `attempts` of replacementMethod
    retryPc,        \* "idle" | "pending" | "backoff" | "done"
    retryTimer,     \* delay of the armed setTimeout, -1 when none
    retryTrace,     \* what the call did, in order
    retryOutcomes,  \* how each invocation of the target ended
    retryResult,    \* settlement of the promise returned to the caller
    retryElapsed,   \* time spent waiting in setTimeout
    \* ---- CircuitBreaker ----------------------------------------------
    cbOptions,      \* the CircuitBreakerOptions
    circuitState,   \* the closure object(s) {failures, state, lastFailureTime}
    cbPending,      \* calls whose target returned a promise not yet settled
    cbResults,      \* per call: settlement of the promise returned to the caller
    cbInvoked,      \* number of invocations of the target
    cbFailed,       \* number of failures handled so far
    notified,       \* arguments onStateChange was called with, in order
    cbCalls,        \* number of wrapper calls made
    cbLast,         \* the last step taken by the breaker
    cbFailedOn,     \* the instances whose calls have failed so far
    \* ---- RateLimited --------------------------------------------------
    rlOptions,      \* {limit, window}
    rateLimitState, \* Map<string, number[]>
    admitted,       \* per key: the times of all calls passed to the target
    admittedOn,     \* per instance: the times of its calls passed to the target
    rlInvoked,      \* number of invocations of the target
    rlCalls,        \* number of wrapper calls made
    rlLast,         \* the last wrapper call and how it ended
    \* ---- Cached ------------------------------------------------------
    cacheOptions,     \* the CacheOptions {expiryTime, key}
    cache,            \* the module's Map<string, CacheEntry>
    methodCacheKeys,  \* the Set<string> of keys of the decorated method
    cachePending,     \* invocations whose promise has not settled yet
    cacheInvoked,     \* number of invocations of the target
    cacheCalls,       \* number of wrapper calls made
    cacheEpoch,       \* number of calls of the invalidation method
    cacheMeta,        \* per entry of cache: when and for whom it was stored
    cacheSettled,     \* keys for which the target has produced a value
    cacheLast,        \* the last step and what it returned
    \* ---- Memoize -----------------------------------------------------
    memoized,         \* the decorator's Map<string, unknown>
    memoPending,      \* invocations whose promise has not settled yet
    memoInvoked,      \* per argument, the number of invocations of the target
    memoCalls,        \* number of wrapper calls made
    memoOutcomes,     \* the ways in which invocations of the target ended
    memoFirst,        \* per argument, the value the first call with it returned
    memoLast,         \* the last call and what it returned
    \* ---- DebounceSync, DebounceAsync ---------------------------------
    dbOptions,        \* the variant of the decorator and its delay
    timeoutMap,       \* the decorator's Map<string, NodeJS.Timeout>
    dbTimers,         \* the timers that are armed, named by the call arming them
    dbLog,            \* the calls made: instance, argument and time
    dbExecs,          \* the executions of the target: call, argument, time, outcome
    dbResult,         \* per call, the state of the promise it returned
    dbOps,            \* executions whose promise has not settled yet
    \* ---- Timeout -----------------------------------------------------
    tmOptions,        \* the ms of Timeout(ms)
    tmAt,             \* per call, the time at which it was made
    tmOp,             \* per call, the state of the operation it invoked
    tmTimers,         \* the calls whose timer is armed
    tmResult,         \* per call, the state of the promise it returned
    tmLast,           \* the last step taken
    \* ---- ThrottleSync, ThrottleAsync ---------------------------------
    thOptions,        \* the variant of the decorator and its interval
    lastCallMap,      \* the decorator's Map<string, number>
    lastResultMap,    \* ThrottleAsync's Map<string, any>: the promise stored
    thPromises,       \* the state of each promise returned by the target
    thExecs,          \* per key, the executions of the target: time and result
    thCalls,          \* number of wrapper calls made
    thLast,           \* the last call and what it returned
    \* ---- Fallback ----------------------------------------------------
    fbLog,            \* per call: receiver, argument, invocations and result
    fbPending,        \* the calls whose target returned a promise not yet settled
    \* ---- Schedule, Interval, Timeout (scheduling) and cleanup -------
    schMaps,          \* per instance and kind, the Map<string, handle>
    schHandles,       \* the handles created: owner, kind, method, times stopped
    schCleanups,      \* per instance, the number of cleanup calls made
    \* ---- Observable --------------------------------------------------
    obValue,          \* per field, this[valueKey]
    obObservers,      \* per field, this[observersKey]: the Set of wrappers
    obSubs,           \* the subscriptions made, each with what it received
    obAssigns,        \* the assignments made, in order
    \* ---- Date.now() ---------------------------------------------------
    now

retryVars == <<retryOptions, attempts, retryPc, retryTimer, retryTrace,
               retryOutcomes, retryResult, retryElapsed>>
cbVars == <<cbOptions, circuitState, cbPending, cbResults, cbInvoked, cbFailed,
            notified, cbCalls, cbLast, cbFailedOn>>
rlVars == <<rlOptions, rateLimitState, admitted, admittedOn, rlInvoked, rlCalls,
           rlLast>>
cacheVars == <<cacheOptions, cache, methodCacheKeys, cachePending, cacheInvoked,
               cacheCalls, cacheEpoch, cacheMeta, cacheSettled, cacheLast>>
\* the decorators of the second half of the module
memoVars == <<memoized, memoPending, memoInvoked, memoCalls, memoOutcomes,
              memoFirst, memoLast>>
dbVars == <<dbOptions, timeoutMap, dbTimers, dbLog, dbExecs, dbResult, dbOps>>
tmVars == <<tmOptions, tmAt, tmOp, tmTimers, tmResult, tmLast>>
extVars == <<cacheVars, memoVars, dbVars, tmVars>>
thVars == <<thOptions, lastCallMap, lastResultMap, thPromises, thExecs, thCalls,
            thLast>>
\* the decorators of the third part of the module
fbVars == <<fbLog, fbPending>>
schVars == <<schMaps, schHandles, schCleanups>>
obVars == <<obValue, obObservers, obSubs, obAssigns>>
ext2Vars == <<thVars, fbVars, schVars, obVars>>
vars == <<retryVars, cbVars, rlVars, extVars, ext2Vars, now>>

(***************************************************************************)
(* Bounds of the model.                                                    *)
(***************************************************************************)
MaxRetries == 3
MaxBackoff == 2
MaxTime == 3

\* `backoff = 1000` in the destructuring of the options
DefaultBackoff == 1000

\* ======================================================================
\* Retry
\* ======================================================================

Strategies == {"fixed", "exponential"}

RetryOptionsSet ==
    [maxRetries : 0..MaxRetries,
     strategy   : Strategies,
     backoff    : {<<>>} \cup {<<b>> : b \in 1..MaxBackoff},
     onRetry    : BOOLEAN]

\* const { maxRetries, strategy, backoff = 1000, onRetry } = options
\* (options.backoff is <<>> when the option is not given, <<b>> otherwise)
Backoff(options) ==
    IF options.backoff = <<>> THEN DefaultBackoff ELSE options.backoff[1]

\* the error thrown, or the value returned, by the n-th invocation of the target
Err(n) == n
Val(n) == n

Event(ev, n, x) == [ev |-> ev, n |-> n, x |-> x]

RetryExhaustedLate(a, maxRetries) == a > maxRetries + 1

\* if (attempts >= maxRetries + 1) throw error
RetryExhausted(a, maxRetries) == a >= maxRetries + 1

\* strategy === 'exponential' ? backoff * Math.pow(2, attempts - 1) : backoff
RetryDelayFixed(strategy, backoff, a) == backoff

\* const delay = strategy === 'exponential'
\*     ? backoff * Math.pow(2, attempts - 1) : backoff
RetryDelay(strategy, backoff, a) ==
    IF strategy = "exponential" THEN backoff * 2 ^ (a - 1) ELSE backoff

RetryStepsSilent(tr, a, e, d, onRetry) == Append(tr, Event("wait", a, d))

RetryStepsWaitFirst(tr, a, e, d, onRetry) ==
    IF onRetry
    THEN Append(Append(tr, Event("wait", a, d)), Event("onRetry", a, e))
    ELSE Append(tr, Event("wait", a, d))

\* the trace after the steps of the catch block that precede the retry:
\* if (onRetry) { onRetry(error, attempts) }, then the wait of d
RetrySteps(tr, a, e, d, onRetry) ==
    IF onRetry
    THEN Append(Append(tr, Event("onRetry", a, e)), Event("wait", a, d))
    ELSE Append(tr, Event("wait", a, d))

\* the catch block of execute, entered with `attempts` = a and error e, after
\* the trace tr
RetryCatch(a, e, tr) ==
    IF RetryExhausted(a, retryOptions.maxRetries)
    THEN /\ retryResult' = [kind |-> "rejected", val |-> e]
         /\ retryPc' = "done"
         /\ retryTrace' = tr
         /\ retryTimer' = -1
    ELSE LET d == RetryDelay(retryOptions.strategy, Backoff(retryOptions), a)
         IN /\ retryTrace' = RetrySteps(tr, a, e, d, retryOptions.onRetry)
            /\ retryTimer' = d
            /\ retryPc' = "backoff"
            /\ UNCHANGED retryResult

\* one run of execute up to its first await (or its end); the target ends
\* this invocation by `outcome`
RetryExecute(outcome) ==
    LET a  == attempts + 1
        tr == Append(retryTrace, Event("invoke", a, 0))
    IN /\ attempts' = a
       /\ CASE outcome = "return" ->
                 /\ retryResult' = [kind |-> "resolved", val |-> Val(a)]
                 /\ retryPc' = "done"
                 /\ retryTrace' = tr
                 /\ retryTimer' = -1
                 /\ retryOutcomes' = Append(retryOutcomes, "return")
            [] outcome = "throw" ->
                 /\ RetryCatch(a, Err(a), tr)
                 /\ retryOutcomes' = Append(retryOutcomes, "throw")
            [] outcome = "promise" ->
                 /\ retryPc' = "pending"
                 /\ retryTrace' = tr
                 /\ retryTimer' = -1
                 /\ UNCHANGED <<retryResult, retryOutcomes>>

\* the caller calls the decorated method
RetryCall ==
    /\ retryPc = "idle"
    /\ \E outcome \in {"return", "throw", "promise"} : RetryExecute(outcome)
    /\ UNCHANGED <<retryOptions, retryElapsed, cbVars, rlVars, extVars, ext2Vars, now>>

\* the promise returned by the target resolves: `return await result`
RetryResolve ==
    /\ retryPc = "pending"
    /\ retryResult' = [kind |-> "resolved", val |-> Val(attempts)]
    /\ retryPc' = "done"
    /\ retryOutcomes' = Append(retryOutcomes, "resolve")
    /\ UNCHANGED <<retryOptions, attempts, retryTimer, retryTrace, retryElapsed,
                   cbVars, rlVars, extVars, ext2Vars, now>>

\* the promise returned by the target rejects: `await result` throws
RetryReject ==
    /\ retryPc = "pending"
    /\ RetryCatch(attempts, Err(attempts), retryTrace)
    /\ retryOutcomes' = Append(retryOutcomes, "reject")
    /\ UNCHANGED <<retryOptions, attempts, retryElapsed, cbVars, rlVars, extVars, ext2Vars, now>>

\* the backoff timer fires: `return execute()`
RetryTimerFires ==
    /\ retryPc = "backoff"
    /\ retryElapsed' = retryElapsed + retryTimer
    /\ \E outcome \in {"return", "throw", "promise"} : RetryExecute(outcome)
    /\ UNCHANGED <<retryOptions, cbVars, rlVars, extVars, ext2Vars, now>>

RetryIdle(options) ==
    /\ retryOptions = options
    /\ attempts = 0
    /\ retryPc = "idle"
    /\ retryTimer = -1
    /\ retryTrace = <<>>
    /\ retryOutcomes = <<>>
    /\ retryResult = [kind |-> "none", val |-> 0]
    /\ retryElapsed = 0

\* ======================================================================
\* CircuitBreaker
\* ======================================================================

MaxThreshold == 2
MaxReset == 2
MaxCalls == 3

\* the instances of the class whose method is decorated
CBInstances == {"a1", "a2"}

CBOptionsSet == [failureThreshold : 1..MaxThreshold, resetTimeout : 1..MaxReset]

StateCellPerInstance(inst) == inst

\* `const circuitState = {...}` is created in CircuitBreaker(options), outside
\* replacementMethod: every instance's call reads and writes that one object
StateCell(inst) == "circuitState"

Cells == {StateCell(i) : i \in CBInstances}

\* const circuitState = { failures: 0, state: 'closed', lastFailureTime: 0 }
CircuitStateInit == [failures |-> 0, state |-> "closed", lastFailureTime |-> 0]

\* A breaker value b pairs the closure object with the calls of
\* options.onStateChange made so far: [cs, notified].

UpdateStateAlways(b, newState) ==
    [cs |-> [b.cs EXCEPT !.state = newState],
     notified |-> Append(b.notified, newState)]

\* function updateState(newState)
UpdateState(b, newState) ==
    IF b.cs.state # newState
    THEN [cs |-> [b.cs EXCEPT !.state = newState],
          notified |-> Append(b.notified, newState)]
    ELSE b

HandleFailureAbove(b, t, threshold) ==
    LET c == [b.cs EXCEPT !.failures = @ + 1, !.lastFailureTime = t]
    IN IF c.failures > threshold
       THEN UpdateState([b EXCEPT !.cs = c], "open")
       ELSE [b EXCEPT !.cs = c]

HandleFailureKeepTime(b, t, threshold) ==
    LET c == [b.cs EXCEPT !.failures = @ + 1]
    IN IF c.failures >= threshold
       THEN UpdateState([b EXCEPT !.cs = c], "open")
       ELSE [b EXCEPT !.cs = c]

\* function handleFailure(error), run at time t
HandleFailure(b, t, threshold) ==
    LET c == [b.cs EXCEPT !.failures = @ + 1, !.lastFailureTime = t]
    IN IF c.failures >= threshold
       THEN UpdateState([b EXCEPT !.cs = c], "open")
       ELSE [b EXCEPT !.cs = c]

HandleSuccessKeepCount(b) ==
    IF b.cs.state = "half-open" THEN UpdateState(b, "closed") ELSE b

HandleSuccessResetAlways(b) ==
    LET b1 == IF b.cs.state = "half-open" THEN UpdateState(b, "closed") ELSE b
    IN [b1 EXCEPT !.cs.failures = 0]

\* if (circuitState.state === 'half-open') { updateState('closed');
\*                                           circuitState.failures = 0; }
HandleSuccess(b) ==
    IF b.cs.state = "half-open"
    THEN LET b1 == UpdateState(b, "closed")
         IN [b1 EXCEPT !.cs.failures = 0]
    ELSE b

GateStuck(b, t, resetTimeout) ==
    IF b.cs.state = "open" THEN [pass |-> FALSE, b |-> b] ELSE [pass |-> TRUE, b |-> b]

GateEager(b, t, resetTimeout) ==
    IF b.cs.state = "open"
    THEN [pass |-> TRUE, b |-> UpdateState(b, "half-open")]
    ELSE [pass |-> TRUE, b |-> b]

\* the check at the head of replacementMethod, at time t: whether the call
\* goes on to the target, and the breaker after the check
Gate(b, t, resetTimeout) ==
    IF b.cs.state = "open"
    THEN IF t - b.cs.lastFailureTime >= resetTimeout
         THEN [pass |-> TRUE, b |-> UpdateState(b, "half-open")]
         ELSE [pass |-> FALSE, b |-> b]
    ELSE [pass |-> TRUE, b |-> b]

Breaker(inst) == [cs |-> circuitState[StateCell(inst)], notified |-> notified]

CBStore(inst, b) ==
    /\ circuitState' = [circuitState EXCEPT ![StateCell(inst)] = b.cs]
    /\ notified' = b.notified

\* a call of the decorated method on instance inst; the target, if it is
\* invoked, ends by `outcome`
CBCall(inst, outcome) ==
    /\ cbCalls < MaxCalls
    /\ LET id == cbCalls + 1
           g  == Gate(Breaker(inst), now, cbOptions.resetTimeout)
       IN /\ cbCalls' = id
          /\ cbLast' = [step |-> "call", id |-> id, inst |-> inst,
                        passed |-> g.pass, gate |-> g.b.cs.state]
          /\ IF ~g.pass
             THEN \* reject(new Error('Circuit breaker is open')); return
                  /\ cbResults' = [cbResults EXCEPT ![id] = "Circuit breaker is open"]
                  /\ CBStore(inst, g.b)
                  /\ UNCHANGED <<cbInvoked, cbFailed, cbFailedOn, cbPending>>
             ELSE /\ cbInvoked' = cbInvoked + 1
                  /\ CASE outcome = "return" ->
                            /\ CBStore(inst, HandleSuccess(g.b))
                            /\ cbResults' = [cbResults EXCEPT ![id] = "value"]
                            /\ UNCHANGED <<cbFailed, cbFailedOn, cbPending>>
                       [] outcome = "throw" ->
                            /\ CBStore(inst, HandleFailure(g.b, now,
                                                 cbOptions.failureThreshold))
                            /\ cbResults' = [cbResults EXCEPT ![id] = "error"]
                            /\ cbFailed' = cbFailed + 1
                            /\ cbFailedOn' = cbFailedOn \cup {inst}
                            /\ UNCHANGED cbPending
                       [] outcome = "promise" ->
                            /\ CBStore(inst, g.b)
                            /\ cbPending' = cbPending \cup
                                 {[id |-> id, inst |-> inst, gate |-> g.b.cs.state]}
                            /\ cbResults' = [cbResults EXCEPT ![id] = "pending"]
                            /\ UNCHANGED <<cbFailed, cbFailedOn>>
    /\ UNCHANGED <<cbOptions, retryVars, rlVars, extVars, ext2Vars, now>>

\* result.then(value => ...): the promise of a passed call resolves
CBResolve(p) ==
    /\ p \in cbPending
    /\ cbPending' = cbPending \ {p}
    /\ CBStore(p.inst, HandleSuccess(Breaker(p.inst)))
    /\ cbResults' = [cbResults EXCEPT ![p.id] = "value"]
    /\ cbLast' = [step |-> "resolve", id |-> p.id, inst |-> p.inst,
                  passed |-> TRUE, gate |-> p.gate]
    /\ UNCHANGED <<cbOptions, cbInvoked, cbFailed, cbFailedOn, cbCalls,
                   retryVars, rlVars, extVars, ext2Vars, now>>

\* .catch(error => ...): the promise of a passed call rejects
CBReject(p) ==
    /\ p \in cbPending
    /\ cbPending' = cbPending \ {p}
    /\ CBStore(p.inst, HandleFailure(Breaker(p.inst), now, cbOptions.failureThreshold))
    /\ cbResults' = [cbResults EXCEPT ![p.id] = "error"]
    /\ cbFailed' = cbFailed + 1
    /\ cbFailedOn' = cbFailedOn \cup {p.inst}
    /\ cbLast' = [step |-> "reject", id |-> p.id, inst |-> p.inst,
                  passed |-> TRUE, gate |-> p.gate]
    /\ UNCHANGED <<cbOptions, cbInvoked, cbCalls, retryVars, rlVars, extVars, ext2Vars, now>>

CBIdle(options) ==
    /\ cbOptions = options
    /\ circuitState = [c \in Cells |-> CircuitStateInit]
    /\ cbPending = {}
    /\ cbResults = [id \in 1..MaxCalls |-> "none"]
    /\ cbInvoked = 0
    /\ cbFailed = 0
    /\ notified = <<>>
    /\ cbCalls = 0
    /\ cbFailedOn = {}
    /\ cbLast = [step |-> "none", id |-> 0, inst |-> "none",
                 passed |-> FALSE, gate |-> "closed"]

\* Date.now() advances
Tick ==
    /\ now < MaxTime
    /\ now' = now + 1
    /\ UNCHANGED <<retryVars, cbVars, rlVars, extVars, ext2Vars>>

\* ======================================================================
\* RateLimited
\* ======================================================================

MaxLimit == 2
MaxWindow == 2
MaxRLCalls == 3

\* instances of two classes that both carry the decorated method
RLInstances == {"a1", "a2", "b1"}
ClassOf(inst) == IF inst = "b1" THEN "B" ELSE "A"
Args == {"x", "y"}

\* const methodName = String(context.name)
MethodName == "method"

RLOptionsSet == [limit : 1..MaxLimit, window : 1..MaxWindow]

KeyPerInstance(inst) == inst \o ":" \o MethodName

\* const key = `${instanceId}:${methodName}`, instanceId = this.constructor.name
Key(inst) == ClassOf(inst) \o ":" \o MethodName

Keys == {Key(i) : i \in RLInstances}

\* rateLimitState.get(key) || []
Timestamps(map, key) == IF key \in DOMAIN map THEN map[key] ELSE <<>>

\* rateLimitState.set(key, requestTimestamps)
MapSet(map, key, value) ==
    [k \in DOMAIN map \cup {key} |-> IF k = key THEN value ELSE map[k]]

InWindowInclusive(timestamp, windowStart) == timestamp >= windowStart

\* timestamp => timestamp > windowStart
InWindow(timestamp, windowStart) == timestamp > windowStart

PruneNothing(timestamps, windowStart) == timestamps

\* requestTimestamps.filter(timestamp => timestamp > windowStart)
Prune(timestamps, windowStart) ==
    SelectSeq(timestamps, LAMBDA t : InWindow(t, windowStart))

LimitExceededAbove(timestamps, limit) == Len(timestamps) > limit

\* if (requestTimestamps.length >= limit)
LimitExceeded(timestamps, limit) == Len(timestamps) >= limit

\* Math.min(...requestTimestamps), of a non-empty array
MinOf(timestamps) ==
    CHOOSE m \in {timestamps[i] : i \in DOMAIN timestamps} :
        \A i \in DOMAIN timestamps : m <= timestamps[i]

\* Math.ceil(x / 1000), x > 0
CeilSeconds(x) == (x + 999) \div 1000

\* the Error thrown when the limit is exceeded:
\* `Rate limit exceeded for ${methodName}. Try again in ${...} seconds.`
RateLimitError(timestamps, window, t) ==
    [phrase |-> "Rate limit exceeded for " \o MethodName,
     seconds |-> CeilSeconds(MinOf(timestamps) + window - t)]

NoError == [phrase |-> "", seconds |-> 0]

RejectedStoreRecorded(map, key, pruned, t) == MapSet(map, key, Append(pruned, t))

\* the map after a call that is rejected: the throw comes before any
\* rateLimitState.set
RejectedStore(map, key, pruned, t) == map

AdmittedStoreNothing(map, key, pruned, t) == map

\* the map after a call that is passed on:
\* requestTimestamps.push(now); rateLimitState.set(key, requestTimestamps)
AdmittedStore(map, key, pruned, t) == MapSet(map, key, Append(pruned, t))

\* a call of the decorated method on instance inst with argument arg; the
\* target, if it is invoked, ends by `outcome`
RLCall(inst, arg, outcome) ==
    /\ rlCalls < MaxRLCalls
    /\ LET windowStart == now - rlOptions.window
           key         == Key(inst)
           pruned      == Prune(Timestamps(rateLimitState, key), windowStart)
       IN IF LimitExceeded(pruned, rlOptions.limit)
          THEN /\ rateLimitState' = RejectedStore(rateLimitState, key, pruned, now)
               /\ rlLast' = [inst |-> inst, arg |-> arg, key |-> key,
                             kind |-> "rejected",
                             error |-> RateLimitError(pruned, rlOptions.window, now),
                             result |-> "threw", at |-> now]
               /\ UNCHANGED <<admitted, admittedOn, rlInvoked>>
          ELSE /\ rateLimitState' = AdmittedStore(rateLimitState, key, pruned, now)
               /\ admitted' = [admitted EXCEPT ![key] = Append(@, now)]
               /\ admittedOn' = [admittedOn EXCEPT ![inst] = Append(@, now)]
               /\ rlInvoked' = rlInvoked + 1
               /\ rlLast' = [inst |-> inst, arg |-> arg, key |-> key,
                             kind |-> "admitted",
                             error |-> NoError,
                             result |-> IF outcome = "return" THEN "result"
                                        ELSE "target threw",
                             at |-> now]
    /\ rlCalls' = rlCalls + 1
    /\ UNCHANGED <<rlOptions, retryVars, cbVars, extVars, ext2Vars, now>>

RLIdle(options) ==
    /\ rlOptions = options
    /\ rateLimitState = [k \in {} |-> <<>>]
    /\ admitted = [k \in Keys |-> <<>>]
    /\ admittedOn = [i \in RLInstances |-> <<>>]
    /\ rlInvoked = 0
    /\ rlCalls = 0
    /\ rlLast = [inst |-> "none", arg |-> "none", key |-> "", kind |-> "none",
                 error |-> NoError, result |-> "none", at |-> 0]


\* ======================================================================
\* Cached
\* ======================================================================

MaxTtl == 1
MaxCacheCalls == 2
MaxInvalidations == 2

\* expiryTime 0 stands for an expiryTime that is not given (both are falsy);
\* key "custom" stands for options.key being a function, key "default" for
\* its absence; the decorator is applied with the default key
CacheOptionsSet == [expiryTime : 0..MaxTtl, key : {"default"}]

\* JSON.stringify(args) of the one-element argument list [arg]: undefined
\* becomes null in an array, a string is quoted
JsonArgs(arg) ==
    IF arg \in {"null", "undefined"} THEN "[null]" ELSE "[\"" \o arg \o "\"]"

\* key(...args), for a function options.key supplied by the user
CustomKey(arg) == "custom:" \o arg

\* const cacheKey = typeof key === 'function' ? key(...args)
\*     : `${this.constructor.name}:${methodName}:${JSON.stringify(args)}`
CacheKey(options, inst, arg) ==
    IF options.key = "custom"
    THEN CustomKey(arg)
    ELSE ClassOf(inst) \o ":" \o MethodName \o ":" \o JsonArgs(arg)

\* the instances the decorated method is called on, both of class A
CacheInstances == {"a1", "a2"}


FreshInclusive(entry, t) == entry.expiry = 0 \/ entry.expiry >= t

\* !cached.expiry || cached.expiry > Date.now()   (expiry 0: undefined)
Fresh(entry, t) == entry.expiry = 0 \/ entry.expiry > t

\* expiryTime ? Date.now() + expiryTime : undefined
Expiry(options, t) == IF options.expiryTime # 0 THEN t + options.expiryTime ELSE 0

\* cache.delete(cacheKey)
MapDelete(map, key) == [k \in DOMAIN map \ {key} |-> map[k]]

\* the entry written by cache.set at time t for the value of invocation id
Entry(options, id, t) == [value |-> Val(id), expiry |-> Expiry(options, t)]

InFlightStoreAtCall(map, key, options, id, t) == MapSet(map, key, Entry(options, id, t))

\* the cache after a call whose target returned a promise: nothing is stored
\* until the promise resolves
InFlightStore(map, key, options, id, t) == map

RejectedCacheStore(map, key, options, id, t) == MapSet(map, key, Entry(options, id, t))

\* the cache after the promise of an invocation rejected: .then is skipped
RejectedCache(map, key, options, id, t) == map

\* whether a call with this key is served from the cache
CacheHit(map, key, t) == key \in DOMAIN map /\ Fresh(map[key], t)

\* the value a call served from the cache returns (0: undefined)
CachedValue(map, key) == IF key \in DOMAIN map THEN map[key].value ELSE 0

\* the entries left by the invalidation method:
\* methodCacheKeys.forEach(cacheKey => cache.delete(cacheKey))
Invalidated(map, keys) == [k \in DOMAIN map \ keys |-> map[k]]

\* a call of the decorated method on instance inst with argument arg; the
\* target, if it is invoked, ends by `outcome`
CachedCall(inst, arg, outcome) ==
    /\ cacheCalls < MaxCacheCalls
    /\ cacheCalls' = cacheCalls + 1
    /\ LET key == CacheKey(cacheOptions, inst, arg)
           id  == cacheInvoked + 1
           \* if (cached) { ...; cache.delete(cacheKey) }
           map == IF key \in DOMAIN cache THEN MapDelete(cache, key) ELSE cache
           meta == IF key \in DOMAIN cacheMeta THEN MapDelete(cacheMeta, key)
                   ELSE cacheMeta
       IN /\ methodCacheKeys' = methodCacheKeys \cup {key}
          /\ IF CacheHit(cache, key, now)
             THEN /\ cacheLast' = [step |-> "call", key |-> key,
                                   hit |-> TRUE, value |-> CachedValue(cache, key),
                                   outcome |-> "value"]
                  /\ UNCHANGED <<cache, cacheMeta, cachePending, cacheInvoked,
                                 cacheSettled>>
             ELSE /\ cacheInvoked' = id
                  /\ CASE outcome = "return" ->
                            /\ cache' = MapSet(map, key, Entry(cacheOptions, id, now))
                            /\ cacheMeta' = MapSet(meta, key,
                                              [epoch |-> cacheEpoch, by |-> inst])
                            /\ cacheSettled' = cacheSettled \cup {key}
                            /\ cacheLast' = [step |-> "call", key |-> key, hit |-> FALSE,
                                             value |-> Val(id), outcome |-> "value"]
                            /\ UNCHANGED cachePending
                       [] outcome = "throw" ->
                            /\ cache' = map
                            /\ cacheMeta' = meta
                            /\ cacheLast' = [step |-> "call", key |-> key, hit |-> FALSE,
                                             value |-> 0, outcome |-> "threw"]
                            /\ UNCHANGED <<cachePending, cacheSettled>>
                       [] outcome = "promise" ->
                            /\ cache' = InFlightStore(map, key, cacheOptions, id, now)
                            /\ cacheMeta' = [k \in DOMAIN cache' |->
                                               IF k \in DOMAIN meta THEN meta[k]
                                               ELSE [epoch |-> cacheEpoch, by |-> inst]]
                            /\ cachePending' = cachePending \cup
                                 {[id |-> id, key |-> key, inst |-> inst]}
                            /\ cacheLast' = [step |-> "call", key |-> key, hit |-> FALSE,
                                             value |-> 0, outcome |-> "pending"]
                            /\ UNCHANGED cacheSettled
    /\ UNCHANGED <<cacheOptions, cacheEpoch, retryVars, cbVars, rlVars, memoVars, dbVars, tmVars, ext2Vars, now>>

\* result.then(value => { cache.set(cacheKey, {...}); return value })
CachedResolve(p) ==
    /\ p \in cachePending
    /\ cachePending' = cachePending \ {p}
    /\ cache' = MapSet(cache, p.key, Entry(cacheOptions, p.id, now))
    /\ cacheMeta' = MapSet(cacheMeta, p.key, [epoch |-> cacheEpoch, by |-> p.inst])
    /\ cacheSettled' = cacheSettled \cup {p.key}
    /\ cacheLast' = [step |-> "resolve", key |-> p.key,
                     hit |-> FALSE, value |-> Val(p.id), outcome |-> "value"]
    /\ UNCHANGED <<cacheOptions, methodCacheKeys, cacheInvoked, cacheCalls,
                   cacheEpoch, retryVars, cbVars, rlVars, memoVars, dbVars, tmVars, ext2Vars, now>>

\* the promise returned by the target rejects: the promise returned by
\* .then rejects with the same error
CachedReject(p) ==
    /\ p \in cachePending
    /\ cachePending' = cachePending \ {p}
    /\ cache' = RejectedCache(cache, p.key, cacheOptions, p.id, now)
    /\ cacheMeta' = [k \in DOMAIN cache' |->
                       IF k \in DOMAIN cacheMeta THEN cacheMeta[k]
                       ELSE [epoch |-> cacheEpoch, by |-> p.inst]]
    /\ cacheLast' = [step |-> "reject", key |-> p.key,
                     hit |-> FALSE, value |-> 0, outcome |-> "error"]
    /\ UNCHANGED <<cacheOptions, methodCacheKeys, cacheInvoked, cacheCalls,
                   cacheEpoch, cacheSettled, retryVars, cbVars, rlVars, memoVars, dbVars, tmVars, ext2Vars, now>>

\* this[invalidateMethodName](), called on instance inst
CachedInvalidate(inst) ==
    /\ cacheEpoch < MaxInvalidations
    /\ cacheEpoch' = cacheEpoch + 1
    /\ cache' = Invalidated(cache, methodCacheKeys)
    /\ cacheMeta' = Invalidated(cacheMeta, methodCacheKeys)
    /\ methodCacheKeys' = {}
    /\ cacheLast' = [step |-> "invalidate", key |-> "",
                     hit |-> FALSE, value |-> 0, outcome |-> "none"]
    /\ UNCHANGED <<cacheOptions, cachePending, cacheInvoked, cacheCalls,
                   cacheSettled, retryVars, cbVars, rlVars, memoVars, dbVars, tmVars, ext2Vars, now>>

CacheIdle(options) ==
    /\ cacheOptions = options
    /\ cache = [k \in {} |-> 0]
    /\ methodCacheKeys = {}
    /\ cachePending = {}
    /\ cacheInvoked = 0
    /\ cacheCalls = 0
    /\ cacheEpoch = 0
    /\ cacheMeta = [k \in {} |-> 0]
    /\ cacheSettled = {}
    /\ cacheLast = [step |-> "none", key |-> "", hit |-> FALSE,
                    value |-> 0, outcome |-> "none"]


\* ======================================================================
\* Memoize
\* ======================================================================

MaxMemoCalls == 3

\* the instances sharing the decorated method
MemoInstances == {"a1", "a2"}

\* the arguments of the calls: a string, null and undefined
MemoArgs == {"x", "null", "undefined"}

MemoKeyPerInstance(inst, arg) == inst \o "." \o MethodName \o ":" \o JsonArgs(arg)

\* const key = `${methodName}:${JSON.stringify(args)}`
MemoKey(inst, arg) == MethodName \o ":" \o JsonArgs(arg)

\* the total number of invocations of the target
MemoInvocations == memoInvoked["x"] + memoInvoked["null"] + memoInvoked["undefined"]

\* a call of the decorated method on instance inst with argument arg; the
\* target, if it is invoked, ends by `outcome`
MemoCall(inst, arg, outcome) ==
    /\ memoCalls < MaxMemoCalls
    /\ memoCalls' = memoCalls + 1
    /\ LET key == MemoKey(inst, arg)
           id  == MemoInvocations + 1
           \* what the call returns: a value, or 0 for a promise or a throw
           ret == IF key \in DOMAIN memoized THEN memoized[key]
                  ELSE IF outcome = "return" THEN Val(id) ELSE 0
       IN /\ IF key \in DOMAIN memoized
             THEN /\ memoLast' = [arg |-> arg, key |-> key, hit |-> TRUE,
                                  value |-> ret]
                  /\ UNCHANGED <<memoized, memoPending, memoInvoked, memoOutcomes>>
             ELSE /\ memoInvoked' = [memoInvoked EXCEPT ![arg] = @ + 1]
                  /\ memoOutcomes' = memoOutcomes \cup {outcome}
                  /\ memoLast' = [arg |-> arg, key |-> key, hit |-> FALSE,
                                  value |-> ret]
                  /\ memoized' = IF outcome = "return"
                                 THEN MapSet(memoized, key, Val(id))
                                 ELSE memoized
                  /\ memoPending' = IF outcome = "promise"
                                    THEN memoPending \cup {[id |-> id, key |-> key]}
                                    ELSE memoPending
          /\ memoFirst' = IF memoFirst[arg] = 0
                          THEN [memoFirst EXCEPT ![arg] = ret]
                          ELSE memoFirst
    /\ UNCHANGED <<retryVars, cbVars, rlVars, cacheVars, dbVars, tmVars, ext2Vars, now>>

\* result.then(value => { memoized.set(key, value); return value })
MemoResolve(p) ==
    /\ p \in memoPending
    /\ memoPending' = memoPending \ {p}
    /\ memoized' = MapSet(memoized, p.key, Val(p.id))
    /\ UNCHANGED <<memoInvoked, memoCalls, memoOutcomes, memoFirst, memoLast,
                   retryVars, cbVars, rlVars, cacheVars, dbVars, tmVars, ext2Vars, now>>

\* the promise returned by the target rejects: nothing is stored
MemoReject(p) ==
    /\ p \in memoPending
    /\ memoPending' = memoPending \ {p}
    /\ UNCHANGED <<memoized, memoInvoked, memoCalls, memoOutcomes, memoFirst,
                   memoLast, retryVars, cbVars, rlVars, cacheVars, dbVars, tmVars, ext2Vars, now>>

MemoIdle ==
    /\ memoized = [k \in {} |-> 0]
    /\ memoPending = {}
    /\ memoInvoked = [a \in MemoArgs |-> 0]
    /\ memoCalls = 0
    /\ memoOutcomes = {}
    /\ memoFirst = [a \in MemoArgs |-> 0]
    /\ memoLast = [arg |-> "none", key |-> "", hit |-> FALSE, value |-> 0]


\* ======================================================================
\* DebounceSync, DebounceAsync
\* ======================================================================

MaxDelay == 2
MaxDBCalls == 3

\* the decorator applied: DebounceSync(delay) or DebounceAsync(delay)
DBOptionsSet == [variant : {"sync", "async"}, delay : 1..MaxDelay]

DebounceKeyPerInstance(inst) == inst \o "." \o MethodName

\* const key = `${this.constructor.name}.${methodName}`
DebounceKey(inst) == ClassOf(inst) \o "." \o MethodName

\* the time at which the timer armed by call id is due: setTimeout(.., delay)
Due(id) == dbLog[id].at + dbOptions.delay

ClearTimeoutNoop(timers, id) == timers

\* clearTimeout(existingTimeout): without effect on a timer that has fired
ClearTimeout(timers, id) == timers \ {id}

\* the ways in which the target can end: that of DebounceSync returns a
\* value or throws, that of DebounceAsync returns a promise or throws
DBOutcomes(variant) ==
    IF variant = "sync" THEN {"return", "throw"} ELSE {"promise", "throw"}

\* a call of the decorated method on instance inst; the argument of the
\* n-th call is n
DBCall(inst) ==
    /\ Len(dbLog) < MaxDBCalls
    /\ LET key == DebounceKey(inst)
           id  == Len(dbLog) + 1
       IN /\ dbTimers' = (IF key \in DOMAIN timeoutMap
                          THEN ClearTimeout(dbTimers, timeoutMap[key])
                          ELSE dbTimers) \cup {id}
          /\ timeoutMap' = MapSet(timeoutMap, key, id)
          /\ dbLog' = Append(dbLog, [inst |-> inst, arg |-> id, at |-> now])
          /\ dbResult' = Append(dbResult, "pending")
    /\ UNCHANGED <<dbOptions, dbExecs, dbOps, retryVars, cbVars, rlVars,
                   cacheVars, memoVars, tmVars, ext2Vars, now>>

\* the promise of call id after the target ended by `outcome`.  DebounceSync
\* runs the target in the timer callback and passes its result to resolve: a
\* throw leaves the callback before resolve is called.  DebounceAsync runs
\* it in a .then handler: a throw rejects the promise returned.
Settled(variant, outcome) ==
    CASE outcome = "return" -> "resolved"
      [] outcome = "promise" -> "pending"
      [] outcome = "throw" -> IF variant = "sync" THEN "pending" ELSE "rejected"

\* the timer armed by call id fires: the target is executed with the
\* receiver and the arguments of that call
DBTimerFires(id, outcome) ==
    /\ id \in dbTimers
    /\ now >= Due(id)
    /\ dbTimers' = dbTimers \ {id}
    /\ dbExecs' = dbExecs \cup {[call |-> id, arg |-> dbLog[id].arg, at |-> now,
                                  outcome |-> outcome]}
    /\ dbResult' = [dbResult EXCEPT ![id] = Settled(dbOptions.variant, outcome)]
    /\ dbOps' = IF outcome = "promise" THEN dbOps \cup {id} ELSE dbOps
    /\ UNCHANGED <<dbOptions, timeoutMap, dbLog, retryVars, cbVars, rlVars,
                   cacheVars, memoVars, tmVars, ext2Vars, now>>

\* the promise returned by the target resolves: so does the promise of the call
DBResolve(id) ==
    /\ id \in dbOps
    /\ dbOps' = dbOps \ {id}
    /\ dbResult' = [dbResult EXCEPT ![id] = "resolved"]
    /\ UNCHANGED <<dbOptions, timeoutMap, dbTimers, dbLog, dbExecs, retryVars,
                   cbVars, rlVars, cacheVars, memoVars, tmVars, ext2Vars, now>>

\* the promise returned by the target rejects: so does the promise of the call
DBReject(id) ==
    /\ id \in dbOps
    /\ dbOps' = dbOps \ {id}
    /\ dbResult' = [dbResult EXCEPT ![id] = "rejected"]
    /\ UNCHANGED <<dbOptions, timeoutMap, dbTimers, dbLog, dbExecs, retryVars,
                   cbVars, rlVars, cacheVars, memoVars, tmVars, ext2Vars, now>>

\* time passes; a timer that is due fires before it does
DBTick ==
    /\ \A id \in dbTimers : Due(id) > now
    /\ Tick

DBIdle(options) ==
    /\ dbOptions = options
    /\ timeoutMap = [k \in {} |-> 0]
    /\ dbTimers = {}
    /\ dbLog = <<>>
    /\ dbExecs = {}
    /\ dbResult = <<>>
    /\ dbOps = {}


\* ======================================================================
\* Timeout
\* ======================================================================

MaxMs == 2
MaxTMCalls == 2

\* `${methodName} timed out after ${ms}ms`
TimeoutMessage(ms) == MethodName \o " timed out after " \o ToString(ms) \o "ms"

\* the promise returned by a call, before it settles
TMPending == [state |-> "pending", value |-> 0, message |-> "", at |-> 0]

\* the settlement of methodPromise at time t: with the value or with the
\* error of the operation invoked by call id
OpSettlement(id, outcome, t) ==
    [state |-> IF outcome = "resolve" THEN "resolved" ELSE "rejected",
     value |-> IF outcome = "resolve" THEN Val(id) ELSE Err(id),
     message |-> "", at |-> t]

\* the settlement of timeoutPromise at time t
TimeoutSettlement(ms, t) ==
    [state |-> "rejected", value |-> 0, message |-> TimeoutMessage(ms), at |-> t]

RaceLastWins(result, settlement) == settlement

\* Promise.race([methodPromise, timeoutPromise]): the promise returned
\* settles as the first of the two that settles, and stays so
Race(result, settlement) ==
    IF result.state = "pending" THEN settlement ELSE result

\* the time at which the timer armed by call id is due: setTimeout(.., ms)
TMDue(id) == tmAt[id] + tmOptions

SyncThrowArmed(timers, id) == timers \cup {id}

\* the timers after a call whose target.apply(this, args) throws: the
\* throw leaves replacementMethod before new Promise and setTimeout
SyncThrow(timers, id) == timers

\* a call of the decorated method; the operation ends by `outcome`
TMCall(outcome) ==
    /\ Len(tmAt) < MaxTMCalls
    /\ tmAt' = Append(tmAt, now)
    /\ LET id == Len(tmAt) + 1
       IN CASE outcome = "throw" ->
                 \* target.apply throws: the call ends before setTimeout
                 /\ tmOp' = Append(tmOp, "threw")
                 /\ tmResult' = Append(tmResult,
                                  [state |-> "threw", value |-> Err(id),
                                   message |-> "", at |-> now])
                 /\ tmTimers' = SyncThrow(tmTimers, id)
            [] outcome = "return" ->
                 \* Promise.resolve(value) is settled when the race starts
                 /\ tmOp' = Append(tmOp, "resolved")
                 /\ tmResult' = Append(tmResult,
                                  Race(TMPending, OpSettlement(id, "resolve", now)))
                 /\ tmTimers' = tmTimers \cup {id}
            [] outcome = "promise" ->
                 /\ tmOp' = Append(tmOp, "pending")
                 /\ tmResult' = Append(tmResult, TMPending)
                 /\ tmTimers' = tmTimers \cup {id}
    /\ tmLast' = [step |-> "call", id |-> Len(tmAt) + 1]
    /\ UNCHANGED <<tmOptions, retryVars, cbVars, rlVars, cacheVars, memoVars,
                   dbVars, ext2Vars, now>>

\* the promise returned by the operation of call id resolves or rejects
TMOpSettles(id, outcome) ==
    /\ id \in DOMAIN tmOp
    /\ tmOp[id] = "pending"
    /\ tmOp' = [tmOp EXCEPT ![id] = IF outcome = "resolve" THEN "resolved"
                                    ELSE "rejected"]
    /\ tmResult' = [tmResult EXCEPT
                       ![id] = Race(@, OpSettlement(id, outcome, now))]
    /\ tmLast' = [step |-> outcome, id |-> id]
    /\ UNCHANGED <<tmOptions, tmAt, tmTimers, retryVars, cbVars, rlVars,
                   cacheVars, memoVars, dbVars, ext2Vars, now>>

\* the timer of call id fires: reject(new Error(...))
TMTimerFires(id) ==
    /\ id \in tmTimers
    /\ now >= TMDue(id)
    /\ tmTimers' = tmTimers \ {id}
    /\ tmResult' = [tmResult EXCEPT
                       ![id] = Race(@, TimeoutSettlement(tmOptions, now))]
    /\ tmLast' = [step |-> "timer", id |-> id]
    /\ UNCHANGED <<tmOptions, tmAt, tmOp, retryVars, cbVars, rlVars,
                   cacheVars, memoVars, dbVars, ext2Vars, now>>

\* time passes; a timer that is due fires before it does
TMTick ==
    /\ \A id \in tmTimers : TMDue(id) > now
    /\ Tick

TMIdle(ms) ==
    /\ tmOptions = ms
    /\ tmAt = <<>>
    /\ tmOp = <<>>
    /\ tmTimers = {}
    /\ tmResult = <<>>
    /\ tmLast = [step |-> "none", id |-> 0]


\* ======================================================================
\* ThrottleSync, ThrottleAsync
\* ======================================================================

MaxInterval == 2
MaxTHCalls == 3

\* the decorator applied: ThrottleSync(interval) or ThrottleAsync(interval)
THOptionsSet == [variant : {"sync", "async"}, interval : 1..MaxInterval]

\* Date.now() when the model's clock starts: milliseconds since 1970, more
\* than any interval
Epoch == MaxInterval + 1

\* const now = Date.now()
DateNow == Epoch + now

\* const key = `${this.constructor.name}.${methodName}`
ThrottleKey(inst) == ClassOf(inst) \o "." \o MethodName

\* lastCallMap.get(key) || 0
LastCall(map, key) == IF key \in DOMAIN map THEN map[key] ELSE 0

AllowedEarly(t, lastCall, interval) == t - lastCall >= interval - 1

\* now - lastCall >= interval
Allowed(t, lastCall, interval) == t - lastCall >= interval

StoreResultOnce(map, key, result) ==
    IF key \in DOMAIN map THEN map ELSE MapSet(map, key, result)

\* lastResultMap.set(key, result)
StoreResult(map, key, result) == MapSet(map, key, result)

\* lastResultMap.get(key): the promise stored, 0 for undefined
LastResult(map, key) == IF key \in DOMAIN map THEN map[key] ELSE 0

\* the other decorators, which the actions of Throttle leave alone
thFrame == <<retryVars, cbVars, rlVars, extVars, fbVars, schVars, obVars>>

\* a call of the decorated method on instance inst; the target, if it is
\* invoked, ends by `outcome`
ThrottleCall(inst, outcome) ==
    /\ thCalls < MaxTHCalls
    /\ thCalls' = thCalls + 1
    /\ LET key == ThrottleKey(inst)
           execs == IF key \in DOMAIN thExecs THEN thExecs[key] ELSE <<>>
           pid == Len(thPromises) + 1
       IN IF Allowed(DateNow, LastCall(lastCallMap, key), thOptions.interval)
          THEN IF thOptions.variant = "sync"
               THEN \* lastCallMap.set(key, now); return target.apply(this, args)
                    /\ outcome \in {"return", "throw"}
                    /\ lastCallMap' = MapSet(lastCallMap, key, DateNow)
                    /\ thExecs' = MapSet(thExecs, key,
                                     Append(execs, [at |-> DateNow, ret |-> 0]))
                    /\ thLast' = [inst |-> inst, key |-> key, executed |-> TRUE,
                                  kind |-> IF outcome = "return" THEN "value"
                                           ELSE "threw",
                                  ret |-> 0]
                    /\ UNCHANGED <<lastResultMap, thPromises>>
               ELSE \* const result = target.apply(this, args); then the two sets
                    /\ outcome \in {"promise", "throw"}
                    /\ IF outcome = "promise"
                       THEN /\ lastCallMap' = MapSet(lastCallMap, key, DateNow)
                            /\ lastResultMap' = StoreResult(lastResultMap, key, pid)
                            /\ thPromises' = Append(thPromises, "pending")
                            /\ thExecs' = MapSet(thExecs, key,
                                     Append(execs, [at |-> DateNow, ret |-> pid]))
                            /\ thLast' = [inst |-> inst, key |-> key,
                                          executed |-> TRUE, kind |-> "promise",
                                          ret |-> pid]
                       ELSE /\ thExecs' = MapSet(thExecs, key,
                                     Append(execs, [at |-> DateNow, ret |-> 0]))
                            /\ thLast' = [inst |-> inst, key |-> key,
                                          executed |-> TRUE, kind |-> "threw",
                                          ret |-> 0]
                            /\ UNCHANGED <<lastCallMap, lastResultMap, thPromises>>
          ELSE /\ outcome = "return"
               /\ thLast' = [inst |-> inst, key |-> key, executed |-> FALSE,
                             kind |-> IF thOptions.variant = "sync" THEN "undefined"
                                      ELSE "promise",
                             \* return lastResult || Promise.resolve(undefined)
                             ret |-> IF thOptions.variant = "sync" THEN 0
                                     ELSE LastResult(lastResultMap, key)]
               /\ UNCHANGED <<lastCallMap, lastResultMap, thPromises, thExecs>>
    /\ UNCHANGED <<thOptions, thFrame, now>>

\* a promise returned by the target settles
ThrottleSettle(pid, outcome) ==
    /\ pid \in DOMAIN thPromises
    /\ thPromises[pid] = "pending"
    /\ thPromises' = [thPromises EXCEPT ![pid] = outcome]
    /\ UNCHANGED <<thOptions, lastCallMap, lastResultMap, thExecs, thCalls,
                   thLast, thFrame, now>>

THIdle(options) ==
    /\ thOptions = options
    /\ lastCallMap = [k \in {} |-> 0]
    /\ lastResultMap = [k \in {} |-> 0]
    /\ thPromises = <<>>
    /\ thExecs = [k \in {} |-> <<>>]
    /\ thCalls = 0
    /\ thLast = [inst |-> "none", key |-> "", executed |-> FALSE,
                 kind |-> "none", ret |-> 0]


\* ======================================================================
\* Fallback
\* ======================================================================

MaxFBCalls == 2

\* the instances the decorated method is called on
FBInstances == {"a1", "a2"}

\* the other decorators, which the actions of Fallback leave alone
fbFrame == <<retryVars, cbVars, rlVars, extVars, thVars, schVars, obVars>>

\* the record of a call whose target was invoked and ended by `outcome`
Invoked(inst, arg, outcome) ==
    [inst |-> inst, arg |-> arg, target |-> 1, fallback |-> <<>>,
     result |-> CASE outcome = "return" -> "value"
                  [] outcome = "promise" -> "pending"
                  [] outcome = "throw" -> "threw"]

\* return fallbackFn.apply(this, args): fallbackFn ends by `fb`
FallbackApply(rec, fb) ==
    [rec EXCEPT !.fallback = Append(@, [inst |-> rec.inst, arg |-> rec.arg]),
                !.result = IF fb = "return" THEN "fallback value"
                           ELSE "fallback error"]

OnRejectedPassThrough(rec, fb) == [rec EXCEPT !.result = "rejected"]

\* result.catch(error => fallbackFn.apply(this, args))
OnRejected(rec, fb) == FallbackApply(rec, fb)

\* a call of the decorated method on instance inst with argument arg; the
\* target ends by `outcome` and fallbackFn, if it is invoked, by `fb`
FallbackCall(inst, arg, outcome, fb) ==
    /\ Len(fbLog) < MaxFBCalls
    /\ outcome # "throw" => fb = "return"
    /\ fbLog' = Append(fbLog,
                   IF outcome = "throw"
                   THEN FallbackApply(Invoked(inst, arg, outcome), fb)
                   ELSE Invoked(inst, arg, outcome))
    /\ fbPending' = IF outcome = "promise"
                    THEN fbPending \cup {Len(fbLog) + 1} ELSE fbPending
    /\ UNCHANGED <<fbFrame, now>>

\* the promise returned by the target resolves: the handler of .catch is
\* skipped
FallbackResolve(id) ==
    /\ id \in fbPending
    /\ fbPending' = fbPending \ {id}
    /\ fbLog' = [fbLog EXCEPT ![id].result = "value"]
    /\ UNCHANGED <<fbFrame, now>>

\* the promise returned by the target rejects
FallbackReject(id, fb) ==
    /\ id \in fbPending
    /\ fbPending' = fbPending \ {id}
    /\ fbLog' = [fbLog EXCEPT ![id] = OnRejected(@, fb)]
    /\ UNCHANGED <<fbFrame, now>>

FBIdle ==
    /\ fbLog = <<>>
    /\ fbPending = {}


\* ======================================================================
\* Schedule, Interval, Timeout (scheduling decorators) and cleanup
\* ======================================================================

MaxHandles == 3
MaxCleanups == 2

\* the instances constructed
SchInstances == {"a1", "a2"}

\* CRON_JOBS, INTERVALS, TIMEOUTS
SchKinds == {"cron", "interval", "timeout"}

\* the names of the decorated methods
SchMethods == {"m1", "m2"}

\* the other decorators, which the actions of scheduling leave alone
schFrame == <<retryVars, cbVars, rlVars, extVars, thVars, fbVars, obVars>>

\* an initializer added by Schedule, Interval or Timeout runs for instance
\* inst while it is constructed: it creates a handle and stores it under
\* the name of the method.  A method carries two initializers of one kind
\* when the decorator is stacked on it or when a subclass overrides and
\* decorates it again.
SchRegister(inst, kind, method) ==
    /\ Len(schHandles) < MaxHandles
    /\ schCleanups[inst] = 0
    /\ schHandles' = Append(schHandles, [inst |-> inst, kind |-> kind,
                                          method |-> method, stopped |-> 0])
    /\ schMaps' = [schMaps EXCEPT
                      ![inst][kind] = MapSet(@, method, Len(schHandles) + 1)]
    /\ UNCHANGED <<schCleanups, schFrame, now>>

\* the handles held by the maps of instance inst
Held(maps, inst) ==
    {maps[inst][k][m] : <<k, m>> \in {km \in SchKinds \X SchMethods :
                                         km[2] \in DOMAIN maps[inst][km[1]]}}

\* job.stop(), clearInterval(timer), clearTimeout(timer) for every value
\* of the three maps
StopAll(handles, held) ==
    [h \in DOMAIN handles |->
        IF h \in held THEN [handles[h] EXCEPT !.stopped = @ + 1] ELSE handles[h]]

\* cleanup(instance)
SchCleanup(inst) ==
    /\ schCleanups[inst] < MaxCleanups
    /\ schCleanups' = [schCleanups EXCEPT ![inst] = @ + 1]
    /\ schHandles' = StopAll(schHandles, Held(schMaps, inst))
    /\ schMaps' = [schMaps EXCEPT ![inst] = [k \in SchKinds |-> [m \in {} |-> 0]]]
    /\ UNCHANGED <<schFrame, now>>

SchIdle ==
    /\ schMaps = [i \in SchInstances |-> [k \in SchKinds |-> [m \in {} |-> 0]]]
    /\ schHandles = <<>>
    /\ schCleanups = [i \in SchInstances |-> 0]

\* ======================================================================
\* Observable (field decorator)
\* ======================================================================

MaxSubs == 2
MaxAssigns == 2

\* the Observable fields of the instance
ObFields == {"value", "other"}

\* the values assigned to the fields
ObValues == {"", "test1"}

\* the initializer of each field: value: string = ''
ObInitial == ""

\* the other decorators, which the actions of Observable leave alone
obFrame == <<retryVars, cbVars, rlVars, extVars, thVars, fbVars, schVars>>

ChangedAlways(newValue, oldValue) == TRUE

\* if (newValue !== oldValue)
Changed(newValue, oldValue) == newValue /= oldValue

\* this[observersKey].forEach(observer => observer(newValue, oldValue)):
\* each wrapper in the Set passes newValue to the function it wraps
Notify(subs, observers, newValue) ==
    [id \in DOMAIN subs |->
        IF id \in observers THEN [subs[id] EXCEPT !.got = Append(@, newValue)]
        ELSE subs[id]]

\* the setter of the field
ObAssign(field, newValue) ==
    /\ Len(obAssigns) < MaxAssigns
    /\ obAssigns' = Append(obAssigns, [field |-> field, value |-> newValue])
    /\ IF Changed(newValue, obValue[field])
       THEN /\ obValue' = [obValue EXCEPT ![field] = newValue]
            /\ obSubs' = Notify(obSubs, obObservers[field], newValue)
       ELSE UNCHANGED <<obValue, obSubs>>
    /\ UNCHANGED <<obObservers, obFrame, now>>

\* this[`subscribe${capitalizedName}`](nextOrObserver) called with a
\* function: a new wrapper of the function is added to the Set and the
\* current value is emitted to it at once
ObSubscribe(field) ==
    /\ Len(obSubs) < MaxSubs
    /\ obObservers' = [obObservers EXCEPT ![field] = @ \cup {Len(obSubs) + 1}]
    /\ obSubs' = Append(obSubs,
                    [field |-> field, got |-> <<obValue[field]>>,
                     from |-> Len(obAssigns), until |-> -1])
    /\ UNCHANGED <<obValue, obAssigns, obFrame, now>>

\* the function returned by subscribe: this[observersKey].delete(wrapper)
ObUnsubscribe(id) ==
    /\ obObservers' = [obObservers EXCEPT ![obSubs[id].field] = @ \ {id}]
    /\ obSubs' = [obSubs EXCEPT ![id].until = IF @ < 0 THEN Len(obAssigns) ELSE @]
    /\ UNCHANGED <<obValue, obAssigns, obFrame, now>>

\* the initializer added by Observable has run for every field
ObIdle ==
    /\ obValue = [f \in ObFields |-> ObInitial]
    /\ obObservers = [f \in ObFields |-> {}]
    /\ obSubs = <<>>
    /\ obAssigns = <<>>

\* ======================================================================
\* Specifications
\* ======================================================================

RetryOff == RetryIdle([maxRetries |-> 0, strategy |-> "fixed",
                       backoff |-> <<>>, onRetry |-> FALSE])
CBOff == CBIdle([failureThreshold |-> 1, resetTimeout |-> 1])
RLOff == RLIdle([limit |-> 1, window |-> 1])
CacheOff == CacheIdle([expiryTime |-> 0, key |-> "default"])
DBOff == DBIdle([variant |-> "sync", delay |-> 1])
TMOff == TMIdle(1)
ExtOff == CacheOff /\ MemoIdle /\ DBOff /\ TMOff
THOff == THIdle([variant |-> "sync", interval |-> 1])
Ext2Off == THOff /\ FBIdle /\ SchIdle /\ ObIdle

InitRetry ==
    /\ \E o \in RetryOptionsSet : RetryIdle(o)
    /\ CBOff /\ RLOff /\ ExtOff /\ Ext2Off /\ now = 0

NextRetry == RetryCall \/ RetryResolve \/ RetryReject \/ RetryTimerFires

SpecRetry == InitRetry /\ [][NextRetry]_vars

InitCB ==
    /\ \E o \in CBOptionsSet : CBIdle(o)
    /\ RetryOff /\ RLOff /\ ExtOff /\ Ext2Off /\ now = 0

NextCB ==
    \/ \E inst \in CBInstances, outcome \in {"return", "throw", "promise"} :
           CBCall(inst, outcome)
    \/ \E p \in cbPending : CBResolve(p)
    \/ \E p \in cbPending : CBReject(p)
    \/ Tick

SpecCB == InitCB /\ [][NextCB]_vars

InitRL ==
    /\ \E o \in RLOptionsSet : RLIdle(o)
    /\ RetryOff /\ CBOff /\ ExtOff /\ Ext2Off /\ now = 0

NextRL ==
    \/ \E inst \in RLInstances, arg \in Args, outcome \in {"return", "throw"} :
           RLCall(inst, arg, outcome)
    \/ Tick

SpecRL == InitRL /\ [][NextRL]_vars

InitCache ==
    /\ \E o \in CacheOptionsSet : CacheIdle(o)
    /\ RetryOff /\ CBOff /\ RLOff /\ MemoIdle /\ DBOff /\ TMOff /\ Ext2Off /\ now = 0

NextCache ==
    \/ \E inst \in CacheInstances, arg \in Args,
          outcome \in {"return", "throw", "promise"} : CachedCall(inst, arg, outcome)
    \/ \E p \in cachePending : CachedResolve(p)
    \/ \E p \in cachePending : CachedReject(p)
    \/ \E inst \in CacheInstances : CachedInvalidate(inst)
    \/ Tick

SpecCache == InitCache /\ [][NextCache]_vars

InitMemo ==
    /\ MemoIdle
    /\ RetryOff /\ CBOff /\ RLOff /\ CacheOff /\ DBOff /\ TMOff /\ Ext2Off /\ now = 0

NextMemo ==
    \/ \E inst \in MemoInstances, arg \in MemoArgs,
          outcome \in {"return", "throw", "promise"} : MemoCall(inst, arg, outcome)
    \/ \E p \in memoPending : MemoResolve(p)
    \/ \E p \in memoPending : MemoReject(p)
    \/ Tick

SpecMemo == InitMemo /\ [][NextMemo]_vars

InitDebounce ==
    /\ \E o \in DBOptionsSet : DBIdle(o)
    /\ RetryOff /\ CBOff /\ RLOff /\ CacheOff /\ MemoIdle /\ TMOff /\ Ext2Off /\ now = 0

NextDebounce ==
    \/ \E inst \in RLInstances : DBCall(inst)
    \/ \E id \in dbTimers, outcome \in DBOutcomes(dbOptions.variant) :
          DBTimerFires(id, outcome)
    \/ \E id \in dbOps : DBResolve(id)
    \/ \E id \in dbOps : DBReject(id)
    \/ DBTick

SpecDebounce == InitDebounce /\ [][NextDebounce]_vars

InitTimeout ==
    /\ \E ms \in 1..MaxMs : TMIdle(ms)
    /\ RetryOff /\ CBOff /\ RLOff /\ CacheOff /\ MemoIdle /\ DBOff /\ Ext2Off /\ now = 0

NextTimeout ==
    \/ \E outcome \in {"return", "throw", "promise"} : TMCall(outcome)
    \/ \E id \in DOMAIN tmOp, outcome \in {"resolve", "reject"} :
          TMOpSettles(id, outcome)
    \/ \E id \in tmTimers : TMTimerFires(id)
    \/ TMTick

SpecTimeout == InitTimeout /\ [][NextTimeout]_vars

InitThrottle ==
    /\ \E o \in THOptionsSet : THIdle(o)
    /\ RetryOff /\ CBOff /\ RLOff /\ ExtOff /\ FBIdle /\ SchIdle /\ ObIdle
    /\ now = 0

NextThrottle ==
    \/ \E inst \in RLInstances, outcome \in {"return", "throw", "promise"} :
          ThrottleCall(inst, outcome)
    \/ \E pid \in DOMAIN thPromises, outcome \in {"resolved", "rejected"} :
          ThrottleSettle(pid, outcome)
    \/ Tick

SpecThrottle == InitThrottle /\ [][NextThrottle]_vars

InitFallback ==
    /\ FBIdle
    /\ RetryOff /\ CBOff /\ RLOff /\ ExtOff /\ THOff /\ SchIdle /\ ObIdle
    /\ now = 0

NextFallback ==
    \/ \E inst \in FBInstances, arg \in Args,
          outcome \in {"return", "throw", "promise"}, fb \in {"return", "throw"} :
          FallbackCall(inst, arg, outcome, fb)
    \/ \E id \in fbPending : FallbackResolve(id)
    \/ \E id \in fbPending, fb \in {"return", "throw"} : FallbackReject(id, fb)

SpecFallback == InitFallback /\ [][NextFallback]_vars

InitScheduling ==
    /\ SchIdle
    /\ RetryOff /\ CBOff /\ RLOff /\ ExtOff /\ THOff /\ FBIdle /\ ObIdle
    /\ now = 0

NextScheduling ==
    \/ \E inst \in SchInstances, kind \in SchKinds, method \in SchMethods :
          SchRegister(inst, kind, method)
    \/ \E inst \in SchInstances : SchCleanup(inst)

SpecScheduling == InitScheduling /\ [][NextScheduling]_vars

InitObservable ==
    /\ ObIdle
    /\ RetryOff /\ CBOff /\ RLOff /\ ExtOff /\ THOff /\ FBIdle /\ SchIdle
    /\ now = 0

NextObservable ==
    \/ \E field \in ObFields, newValue \in ObValues : ObAssign(field, newValue)
    \/ \E field \in ObFields : ObSubscribe(field)
    \/ \E id \in DOMAIN obSubs : ObUnsubscribe(id)

SpecObservable == InitObservable /\ [][NextObservable]_vars

\* ======================================================================
\* Retry: claims
\* ======================================================================

Invocations == SelectSeq(retryTrace, LAMBDA e : e.ev = "invoke")
OnRetryCalls == SelectSeq(retryTrace, LAMBDA e : e.ev = "onRetry")

\* every invocation of the target so far has failed
AllFailed ==
    \A i \in DOMAIN retryOutcomes : retryOutcomes[i] \in {"throw", "reject"}

\* C1: with maxRetries = N and a target that fails on every attempt (by
\* throwing or by rejecting), the target is never invoked more than N+1
\* times, and when the wrapper call has settled the target has been invoked
\* exactly N+1 times, onRetry (when given) has been called exactly N times,
\* the k-th time with the k-th error and attempt number k, and the wrapper
\* has rejected with the error of the last, (N+1)-th, attempt.
C1_RetryExhaustion ==
    LET N == retryOptions.maxRetries
    IN AllFailed =>
         /\ Len(Invocations) <= N + 1
         /\ retryPc = "done" =>
              /\ Len(Invocations) = N + 1
              /\ Len(retryOutcomes) = N + 1
              /\ retryResult = [kind |-> "rejected", val |-> Err(N + 1)]
              /\ retryOptions.onRetry =>
                   OnRetryCalls = [k \in 1..N |-> Event("onRetry", k, Err(k))]
              /\ ~retryOptions.onRetry => OnRetryCalls = <<>>

C1_Witness ==
    /\ retryPc = "done"
    /\ AllFailed
    /\ retryOptions.onRetry
    /\ retryOptions.maxRetries = 2
    /\ retryOutcomes = <<"throw", "reject", "throw">>
    /\ Len(OnRetryCalls) = 2

\* ======================================================================
\* CircuitBreaker: claims
\* ======================================================================

\* the circuit state a call on instance inst works on
CS(inst) == circuitState[StateCell(inst)]

\* the step is a wrapper call on instance inst
IsCallOn(inst) == cbCalls' = cbCalls + 1 /\ cbLast'.inst = inst

\* the step handles a failure
IsFailure == cbFailed' = cbFailed + 1

\* the breaker is open and resetTimeout has not elapsed since the last failure
Cooling(inst) ==
    /\ CS(inst).state = "open"
    /\ now - CS(inst).lastFailureTime < cbOptions.resetTimeout

\* C2: starting closed with failureCount 0, the breaker is open right after
\* the T-th failure has been handled, and right after every failure that
\* leaves failureCount >= T; it is never open while failureCount < T.
C2_OpenAtThreshold ==
    /\ [](\A i \in CBInstances :
            CS(i).state = "open" => CS(i).failures >= cbOptions.failureThreshold)
    /\ [][\A i \in CBInstances :
            (IsFailure /\ cbLast'.inst = i
               /\ CS(i)'.failures >= cbOptions.failureThreshold)
                => CS(i)'.state = "open"]_vars
    /\ [][\A i \in CBInstances :
            (IsFailure /\ cbFailed' = cbOptions.failureThreshold)
                => CS(i)'.state = "open"]_vars

C2_Witness ==
    /\ cbOptions.failureThreshold = 2
    /\ cbFailed = 2
    /\ CS("a1").state = "open"
    /\ CS("a1").failures = 2

\* C3: a call made while the breaker is open and less than resetTimeout has
\* elapsed since lastFailureTime is rejected with 'Circuit breaker is open',
\* does not invoke the target and leaves failures, state and
\* lastFailureTime as they were (and calls onStateChange not at all).
C3_ShortCircuit ==
    [][\A i \in CBInstances :
         (IsCallOn(i) /\ Cooling(i)) =>
            /\ cbResults'[cbLast'.id] = "Circuit breaker is open"
            /\ cbInvoked' = cbInvoked
            /\ cbPending' = cbPending
            /\ circuitState' = circuitState
            /\ notified' = notified]_vars

C3_Witness ==
    /\ cbLast.step = "call"
    /\ ~cbLast.passed
    /\ cbResults[cbLast.id] = "Circuit breaker is open"
    /\ cbInvoked < cbCalls
    /\ CS("a1").state = "open"

\* C4: the breaker leaves open only in a call that arrives when
\* now - lastFailureTime >= resetTimeout; such a call makes the state
\* half-open (onStateChange('half-open') is the next notification) and is
\* passed to the target, which leaves the state half-open while the target's
\* promise is pending; the passage of time alone changes nothing.
C4_LazyHalfOpen ==
    /\ [][\A i \in CBInstances :
            (CS(i).state = "open" /\ CS(i)'.state # "open") =>
               /\ IsCallOn(cbLast'.inst)
               /\ now - CS(i).lastFailureTime >= cbOptions.resetTimeout]_vars
    /\ [][\A i \in CBInstances :
            (IsCallOn(i) /\ CS(i).state = "open" /\ ~Cooling(i)) =>
               /\ cbLast'.passed
               /\ cbLast'.gate = "half-open"
               /\ cbInvoked' = cbInvoked + 1
               /\ Len(notified') > Len(notified)
               /\ notified'[Len(notified) + 1] = "half-open"
               /\ cbPending' # cbPending => CS(i)'.state = "half-open"]_vars
    /\ [][now' # now => circuitState' = circuitState /\ notified' = notified]_vars

C4_Witness ==
    /\ cbLast.step = "call"
    /\ cbLast.gate = "half-open"
    /\ CS("a1").state = "half-open"
    /\ cbPending # {}
    /\ now > cbOptions.resetTimeout

\* the step handles the success of a call that the gate passed in
\* half-open state: a synchronous return, or the resolution of its promise
IsHalfOpenSuccess ==
    /\ cbLast'.gate = "half-open"
    /\ \/ cbCalls' = cbCalls + 1 /\ cbResults'[cbLast'.id] = "value"
       \/ cbLast'.step = "resolve" /\ cbPending' # cbPending

C6_NotifyOnChange ==
    /\ [](/\ notified # <<>> => notified[1] # "closed"
          /\ \A k \in 1..(Len(notified) - 1) : notified[k] # notified[k + 1]
          /\ \A i \in CBInstances :
               CS(i).state = IF notified = <<>> THEN "closed"
                             ELSE notified[Len(notified)])
    /\ [][notified' = notified => 
            \A i \in CBInstances : CS(i)'.state = CS(i).state]_vars

\* a failure was handled while the breaker was already open: updateState('open')
\* was called again and onStateChange was not
C6_Witness ==
    /\ cbOptions.failureThreshold = 1
    /\ cbFailed = 2
    /\ notified = <<"open">>
    /\ CS("a1").state = "open"

\* C7: the instances share one circuit state: a failure of a call on any
\* instance adds one to the failureCount every instance's calls see, and
\* while the breaker opened by any instance's failures is open and cooling,
\* a call on every instance is short-circuited.
C7_SharedAcrossInstances ==
    /\ [](\A i, j \in CBInstances : CS(i) = CS(j))
    /\ [][\A i, j \in CBInstances :
            (IsFailure /\ cbLast'.inst = i) =>
                CS(j)'.failures = CS(j).failures + 1]_vars
    /\ [][\A i, j \in CBInstances :
            (IsCallOn(j) /\ Cooling(i)) =>
                /\ ~cbLast'.passed
                /\ cbInvoked' = cbInvoked
                /\ cbResults'[cbLast'.id] = "Circuit breaker is open"]_vars

\* two failures, one on each instance, opened the breaker, and a call on a2
\* was short-circuited
C7_Witness ==
    /\ cbOptions.failureThreshold = 2
    /\ cbFailedOn = {"a1", "a2"}
    /\ cbFailed = 2
    /\ CS("a1").state = "open"
    /\ cbLast.step = "call"
    /\ cbLast.inst = "a2"
    /\ ~cbLast.passed

\* ======================================================================
\* RateLimited: claims
\* ======================================================================

\* the number of calls of key k passed to the target at a time in (t - w, t]
AdmittedIn(k, t, w) ==
    Cardinality({i \in DOMAIN admitted[k] :
                    admitted[k][i] > t - w /\ admitted[k][i] <= t})

\* C8: for every key and every t, at most `limit` of the calls passed to the
\* target have their time in (t - window, t].
C8_SlidingWindowBound ==
    \A k \in Keys : \A t \in 0..(MaxTime + MaxWindow) :
        AdmittedIn(k, t, rlOptions.window) <= rlOptions.limit

\* a call was rejected with the window full, after more than `limit` calls
\* of that key had been passed on in all
C8_Witness ==
    /\ rlLast.kind = "rejected"
    /\ AdmittedIn(rlLast.key, now, rlOptions.window) = rlOptions.limit
    /\ Len(admitted[rlLast.key]) > rlOptions.limit

\* C9: a rejected call throws (synchronously, in the call itself) an error
\* whose message starts with 'Rate limit exceeded for <method name>', does
\* not invoke the target, and leaves the map of stored windows as it was.
C9_RejectionLeavesState ==
    [][(rlCalls' = rlCalls + 1 /\ rlLast'.kind = "rejected") =>
          /\ rlLast'.result = "threw"
          /\ rlLast'.error.phrase = "Rate limit exceeded for " \o MethodName
          /\ rlInvoked' = rlInvoked
          /\ admitted' = admitted
          /\ rateLimitState' = rateLimitState]_vars

C9_Witness ==
    /\ rlLast.kind = "rejected"
    /\ rlLast.result = "threw"
    /\ rlLast.key \in DOMAIN rateLimitState
    /\ Len(rateLimitState[rlLast.key]) = rlOptions.limit
    /\ rlInvoked < rlCalls

\* the limit of key k has been reached: `limit` requests are recorded
LimitReached(k) ==
    /\ k \in DOMAIN rateLimitState
    /\ Len(rateLimitState[k]) >= rlOptions.limit

\* more than `window` has elapsed since every recorded request of key k
WindowElapsed(k) ==
    \A n \in DOMAIN rateLimitState[k] :
        now - rateLimitState[k][n] > rlOptions.window

\* C10: once the limit of a key has been reached, a call made when more
\* than `window` has elapsed since the recorded requests is passed to the
\* target and returns what the target returns (or throws what it throws).
C10_BudgetRecovers ==
    [][\A i \in RLInstances :
         (rlCalls' = rlCalls + 1 /\ rlLast'.inst = i
            /\ LimitReached(Key(i)) /\ WindowElapsed(Key(i))) =>
              /\ rlLast'.kind = "admitted"
              /\ rlLast'.result \in {"result", "target threw"}
              /\ rlInvoked' = rlInvoked + 1
              /\ rateLimitState'[Key(i)] = <<now>>]_vars

C10_Witness ==
    /\ rlLast.kind = "admitted"
    /\ rlLast.result = "result"
    /\ Len(admitted[rlLast.key]) = rlOptions.limit + 1
    /\ rlLast.at - admitted[rlLast.key][rlOptions.limit] > rlOptions.window
    /\ rateLimitState[rlLast.key] = <<rlLast.at>>

\* the number of calls passed to the target on instances of class c, with
\* whatever argument, at a time in (t - w, t]
AdmittedOnClass(c, t, w) ==
    Cardinality({<<i, n>> \in RLInstances \X (1..MaxRLCalls) :
                    /\ ClassOf(i) = c
                    /\ n \in DOMAIN admittedOn[i]
                    /\ admittedOn[i][n] > t - w
                    /\ admittedOn[i][n] <= t})

\* C11: the budget is one per owner class name (and method): a call on an
\* instance is rejected exactly when `limit` calls on instances of its
\* class, whatever the instance and the argument, were passed on within the
\* window, so no class ever exceeds `limit` calls per window; calls on
\* instances of another class neither count against it nor change its
\* stored window.
C11_BudgetPerOwnerType ==
    /\ [](\A c \in {"A", "B"} : \A t \in 0..MaxTime :
            AdmittedOnClass(c, t, rlOptions.window) <= rlOptions.limit)
    /\ [][\A i \in RLInstances :
            (rlCalls' = rlCalls + 1 /\ rlLast'.inst = i) =>
               /\ rlLast'.kind = "rejected" <=>
                    AdmittedOnClass(ClassOf(i), now, rlOptions.window)
                        >= rlOptions.limit
               /\ \A j \in RLInstances :
                    ClassOf(j) # ClassOf(i) =>
                       Timestamps(rateLimitState', Key(j))
                           = Timestamps(rateLimitState, Key(j))]_vars

\* a1 and b1 were each passed on, and then a call on a2, of a1's class, was
\* rejected
C11_Witness ==
    /\ rlOptions.limit = 1
    /\ rlLast.kind = "rejected"
    /\ rlLast.inst = "a2"
    /\ rlLast.arg = "y"
    /\ admittedOn["a1"] = <<0>>
    /\ admittedOn["a2"] = <<>>
    /\ admittedOn["b1"] = <<0>>

\* a step that is a call of the cached method
IsCachedCall == cacheCalls' = cacheCalls + 1

\* a step in which the promise of an invocation resolves
IsCachedResolve == cachePending' # cachePending /\ cacheLast'.step = "resolve"

\* a step in which the promise of an invocation rejects
IsCachedReject == cachePending' # cachePending /\ cacheLast'.step = "reject"

\* the entry for key k is unexpired at the present time
Unexpired(k) ==
    k \in DOMAIN cache /\ (cache[k].expiry = 0 \/ now < cache[k].expiry)

\* the entry for key k has an expiry, and it is reached
Expired(k) ==
    k \in DOMAIN cache /\ cache[k].expiry # 0 /\ now >= cache[k].expiry

\* C12 as stated: a call whose key has an unexpired entry returns the
\* stored value without invoking the operation, whichever instance stored
\* it; a call at or after the expiry invokes the operation and stores a
\* fresh entry with expiry = now + ttl.
C12_Original ==
    [][IsCachedCall =>
         /\ Unexpired(cacheLast'.key) =>
               /\ cacheInvoked' = cacheInvoked
               /\ cacheLast'.outcome = "value"
               /\ cacheLast'.value = cache[cacheLast'.key].value
         /\ Expired(cacheLast'.key) =>
               /\ cacheInvoked' = cacheInvoked + 1
               /\ cacheLast'.key \in DOMAIN cache'
               /\ cache'[cacheLast'.key] =
                     [value |-> Val(cacheInvoked'),
                      expiry |-> now + cacheOptions.expiryTime]]_vars

\* C12: a call whose key has an unexpired entry (or one without expiry)
\* returns the stored value without invoking the operation and leaves the
\* cache alone, whichever instance stored the entry; a call at or after the
\* expiry removes the entry and invokes the operation again: a value
\* returned synchronously is stored at once with expiry = now + ttl, a
\* promise leaves no entry until it resolves, when the entry is stored with
\* expiry = resolution time + ttl, and a throw leaves no entry.
C12_TtlReuse ==
    /\ [][IsCachedCall =>
            /\ Unexpired(cacheLast'.key) =>
                  /\ cacheInvoked' = cacheInvoked
                  /\ cacheLast'.outcome = "value"
                  /\ cacheLast'.value = cache[cacheLast'.key].value
                  /\ cache' = cache
            /\ Expired(cacheLast'.key) =>
                  /\ cacheInvoked' = cacheInvoked + 1
                  /\ IF cacheLast'.outcome = "value"
                     THEN /\ cacheLast'.key \in DOMAIN cache'
                          /\ cache'[cacheLast'.key] =
                                [value |-> Val(cacheInvoked'),
                                 expiry |-> now + cacheOptions.expiryTime]
                     ELSE cacheLast'.key \notin DOMAIN cache']_vars
    /\ [][IsCachedResolve =>
            /\ cacheLast'.key \in DOMAIN cache'
            /\ cache'[cacheLast'.key].value = cacheLast'.value
            /\ cache'[cacheLast'.key].expiry =
                  IF cacheOptions.expiryTime # 0
                  THEN now + cacheOptions.expiryTime ELSE 0]_vars

\* a call at or after the expiry of the entry stored for its key by
\* the only earlier call, returning a promise: the entry is gone and none
\* is stored yet
C12_Witness ==
    /\ cacheOptions.expiryTime = 1
    /\ cacheLast.step = "call"
    /\ cacheLast.outcome = "pending"
    /\ cacheCalls = 2
    /\ cacheInvoked = 2
    /\ cacheEpoch = 0
    /\ cacheSettled = {cacheLast.key}
    /\ DOMAIN cache = {}

\* C13 as stated: after an invalidation no call returns a value that was
\* stored before the invalidation; a call served from the cache returns an
\* entry stored since the last invalidation.
C13_InvalidationForcesRecompute ==
    [][(IsCachedCall /\ cacheLast'.hit) =>
          cacheMeta[cacheLast'.key].epoch = cacheEpoch]_vars

\* C14 as stated: while an invocation is pending there is no entry for its
\* key, and after it rejects there is none either; entries appear only
\* when a promise resolves.
C14_Original ==
    /\ [](\A p \in cachePending : p.key \notin DOMAIN cache)
    /\ [][IsCachedReject => cacheLast'.key \notin DOMAIN cache']_vars

\* C14: a call whose invocation returns a promise leaves no entry for its
\* key when it returns; the rejection of the promise leaves the cache as it
\* is; an entry is written or replaced only by a step in which the
\* operation returns a value or its promise resolves, and it holds that
\* value: a rejected result is never stored.
C14_StoredOnSuccessOnly ==
    /\ [][(IsCachedCall /\ cacheLast'.outcome = "pending") =>
             cacheLast'.key \notin DOMAIN cache']_vars
    /\ [][IsCachedReject => cache' = cache]_vars
    /\ [][\A k \in DOMAIN cache' :
             (k \notin DOMAIN cache \/ cache'[k] # cache[k]) =>
                /\ \/ IsCachedResolve
                   \/ IsCachedCall /\ ~cacheLast'.hit /\ cacheLast'.outcome = "value"
                /\ k = cacheLast'.key
                /\ cache'[k].value = cacheLast'.value]_vars

\* a promise rejects while the entry stored for its key by a concurrent
\* invocation is in the cache
C14_Witness ==
    /\ cacheLast.step = "reject"
    /\ cacheLast.key \in DOMAIN cache
    /\ cacheInvoked = 2
    /\ cachePending = {}
    /\ cacheEpoch = 0

\* C15: a call with a key for which an invocation is pending, and for
\* which there is no unexpired entry, or for which no invocation has yet
\* produced a value, invokes the operation; so the operation is invoked
\* once per such call.
C15_NoSingleFlight ==
    [][IsCachedCall =>
         \A p \in cachePending :
            (/\ p.key = cacheLast'.key
             /\ \/ ~Unexpired(p.key)
                \/ p.key \notin cacheSettled) =>
               /\ cacheInvoked' = cacheInvoked + 1
               /\ ~cacheLast'.hit]_vars

\* two calls with the same key, the second made while the promise of the
\* first was pending: two invocations are pending
C15_Witness ==
    /\ cacheCalls = 2
    /\ cacheInvoked = 2
    /\ Cardinality(cachePending) = 2
    /\ \A p, q \in cachePending : p.key = q.key

\* a step that is a call of the memoized method
IsMemoCall == memoCalls' = memoCalls + 1

\* every invocation of the target so far returned a value synchronously
MemoSyncOnly == memoOutcomes \subseteq {"return"}

\* C16: while the operation returns synchronously and normally, it is
\* invoked at most once per argument, whatever the instances called and
\* the time between the calls, and every call with an argument that was
\* used before, on any instance and at any later time, returns the value
\* the first call with that argument returned, without an invocation.
C16_MemoizeOnce ==
    /\ [](MemoSyncOnly => \A a \in MemoArgs : memoInvoked[a] <= 1)
    /\ [][(IsMemoCall /\ MemoSyncOnly' /\ memoFirst[memoLast'.arg] # 0) =>
             /\ memoLast'.value = memoFirst[memoLast'.arg]
             /\ memoLast'.hit
             /\ memoInvoked' = memoInvoked]_vars

\* three calls with the same argument at three different times, the first
\* of which invoked the operation
C16_Witness ==
    /\ memoCalls = 3
    /\ memoOutcomes = {"return"}
    /\ memoInvoked = [a \in MemoArgs |-> IF a = "x" THEN 1 ELSE 0]
    /\ memoLast.arg = "x"
    /\ memoLast.hit
    /\ memoLast.value = Val(1)
    /\ now = 2

\* the debounced calls made so far
DBCalls == 1..Len(dbLog)

\* calls i and j were made on instances of the same class
SameOwner(i, j) == ClassOf(dbLog[i].inst) = ClassOf(dbLog[j].inst)

\* call i was followed, for its class, by a call less than the delay later
Superseded(i) ==
    \E j \in DBCalls :
       j > i /\ SameOwner(i, j) /\ dbLog[j].at < dbLog[i].at + dbOptions.delay

\* call i was not followed, for its class, by a call within the delay
LastOfBurst(i) ==
    ~\E j \in DBCalls :
       j > i /\ SameOwner(i, j) /\ dbLog[j].at <= dbLog[i].at + dbOptions.delay

\* the executions of the target made for call i
ExecsOf(i) == {e \in dbExecs : e.call = i}

\* C17: of the calls for a key that each arrive less than the delay after
\* the previous one, only the last is executed: a call followed within the
\* delay is never executed, no call is executed twice, an execution takes
\* place the delay after its call and with the arguments of that call, and
\* the last call of a burst has been executed once the delay has passed.
C17_DebounceCollapse ==
    \A i \in DBCalls :
       /\ Superseded(i) => ExecsOf(i) = {}
       /\ Cardinality(ExecsOf(i)) <= 1
       /\ \A e \in ExecsOf(i) :
             e.at = dbLog[i].at + dbOptions.delay /\ e.arg = dbLog[i].arg
       /\ (LastOfBurst(i) /\ now > dbLog[i].at + dbOptions.delay) =>
             Cardinality(ExecsOf(i)) = 1

\* three calls on instances of one class at times 0, 1 and 1 with delay 2:
\* one execution, that of the third call, at time 3
C17_Witness ==
    /\ dbOptions.delay = 2
    /\ Len(dbLog) = 3
    /\ \A i \in DBCalls : ClassOf(dbLog[i].inst) = "A"
    /\ dbLog[1].at = 0 /\ dbLog[2].at = 1 /\ dbLog[3].at = 1
    /\ {e.call : e \in dbExecs} = {3}
    /\ \A e \in dbExecs : e.at = 3 /\ e.arg = 3
    /\ dbTimers = {}

\* C18 as stated: once an execution of DebounceSync has returned, the
\* promise of the call executed and the promises of the calls it superseded
\* (the calls for its key made since the previous execution) are resolved.
C18_AllPromisesResolve ==
    dbOptions.variant = "sync" =>
       \A e \in dbExecs :
          e.outcome = "return" =>
             \A i \in DBCalls :
                (/\ i <= e.call
                 /\ SameOwner(i, e.call)
                 /\ \A f \in dbExecs :
                       SameOwner(f.call, i) => (f.call < i \/ f.call >= e.call)) =>
                   dbResult[i] = "resolved"

\* a step that is a debounced call
IsDBCall == Len(dbLog') = Len(dbLog) + 1

\* C19 as stated: a call on one instance leaves armed every timer armed by
\* a call on another instance.
C19_Original ==
    [][IsDBCall =>
         \A id \in dbTimers :
            dbLog[id].inst # dbLog'[Len(dbLog')].inst => id \in dbTimers']_vars

\* C19: the state is per class name: a call disarms the timer armed by the
\* last call on any instance of the class of its instance, arms its own,
\* and leaves the timers of the other classes armed.
C19_PerOwnerType ==
    [][IsDBCall =>
         dbTimers' =
            {id \in dbTimers :
                ClassOf(dbLog[id].inst) # ClassOf(dbLog'[Len(dbLog')].inst)}
            \cup {Len(dbLog')}]_vars

\* calls on a1, b1 and a2 at the same time: the timer of a1 is disarmed,
\* those of b1 and a2 are armed
C19_Witness ==
    /\ Len(dbLog) = 3
    /\ dbLog[1].inst = "a1" /\ dbLog[2].inst = "b1" /\ dbLog[3].inst = "a2"
    /\ dbLog[3].at < dbLog[1].at + dbOptions.delay
    /\ dbTimers = {2, 3}
    /\ dbExecs = {}

\* C20: the promise returned by a Timeout call settles once and for all;
\* when the operation settles while the promise is pending, the promise
\* settles with the operation's outcome, and that is no later than ms
\* after the call; when the timer fires while the promise is pending, the
\* promise rejects with '<name> timed out after <ms>ms', ms after the call;
\* a settlement of the operation after that leaves the promise as it is.
C20_TimeoutRace ==
    /\ [][\A id \in DOMAIN tmResult :
             tmResult[id].state # "pending" => tmResult'[id] = tmResult[id]]_vars
    /\ [][\A id \in DOMAIN tmResult :
             (tmResult[id].state = "pending" /\ tmOp'[id] # tmOp[id]) =>
                /\ tmResult'[id].state = tmOp'[id]
                /\ tmResult'[id].value = id
                /\ tmResult'[id].message = ""
                /\ now <= tmAt[id] + tmOptions]_vars
    /\ [][\A id \in DOMAIN tmResult :
             (tmResult[id].state = "pending" /\ id \in tmTimers
                 /\ id \notin tmTimers') =>
                /\ tmResult'[id].state = "rejected"
                /\ tmResult'[id].message =
                      MethodName \o " timed out after " \o ToString(tmOptions) \o "ms"
                /\ now = tmAt[id] + tmOptions]_vars

\* the timer of a call fired first and rejected its promise, and the
\* operation resolved afterwards
C20_Witness ==
    /\ tmLast.step = "resolve"
    /\ tmOp[tmLast.id] = "resolved"
    /\ tmResult[tmLast.id].state = "rejected"
    /\ tmResult[tmLast.id].message = "method timed out after 1ms"
    /\ tmResult[tmLast.id].at < now

\* C21 as stated: once the promise of a Timeout call has settled with the
\* outcome of the operation, the timer of that call is not armed.
C21_TimerDisarmed ==
    \A id \in DOMAIN tmResult :
       (tmResult[id].state \in {"resolved", "rejected"}
           /\ tmResult[id].message = "") => id \notin tmTimers

\* a step that is a call of the throttled method
IsTHCall == thCalls' = thCalls + 1

\* the last element of a non-empty sequence
LastOf(seq) == seq[Len(seq)]

\* C22: for ThrottleSync and every key, the first call executes the
\* operation at once and records its time; a call less than the interval
\* after the last execution does not invoke the operation, returns
\* undefined without an error and leaves the recorded time alone; any two
\* executions for a key are at least the interval apart.
C22_ThrottleSync ==
    /\ [][(IsTHCall /\ thOptions.variant = "sync") =>
            /\ thLast'.key \notin DOMAIN thExecs =>
                  /\ thLast'.executed
                  /\ LastOf(thExecs'[thLast'.key]).at = DateNow
                  /\ lastCallMap'[thLast'.key] = DateNow
            /\ (/\ thLast'.key \in DOMAIN thExecs
                /\ DateNow - LastOf(thExecs[thLast'.key]).at < thOptions.interval) =>
                  /\ ~thLast'.executed
                  /\ thLast'.kind = "undefined"
                  /\ thExecs' = thExecs
                  /\ lastCallMap' = lastCallMap]_vars
    /\ [](thOptions.variant = "sync" =>
            \A k \in DOMAIN thExecs :
               \A i \in 1..(Len(thExecs[k]) - 1) :
                  thExecs[k][i + 1].at - thExecs[k][i].at >= thOptions.interval)

\* three calls on instances of class A with interval 2: two executions, 2
\* apart, and a suppressed call in between
C22_Witness ==
    /\ thOptions = [variant |-> "sync", interval |-> 2]
    /\ thCalls = 3
    /\ DOMAIN thExecs = {"A.method"}
    /\ Len(thExecs["A.method"]) = 2
    /\ thExecs["A.method"][2].at - thExecs["A.method"][1].at = 2

\* C23: for ThrottleAsync, a call less than the interval after the last
\* execution for its key that returned a promise is suppressed; a
\* suppressed call does not invoke the operation and returns the promise
\* that the most recent execution for its key returned, in whatever state
\* that promise is.
C23_ThrottleAsyncLastResult ==
    [][(IsTHCall /\ thOptions.variant = "async") =>
         /\ (/\ thLast'.key \in DOMAIN thExecs
             /\ LastOf(thExecs[thLast'.key]).ret # 0
             /\ DateNow - LastOf(thExecs[thLast'.key]).at < thOptions.interval) =>
               ~thLast'.executed
         /\ ~thLast'.executed =>
               /\ thExecs' = thExecs
               /\ thPromises' = thPromises
               /\ thLast'.kind = "promise"
               /\ thLast'.key \in DOMAIN thExecs
               /\ thLast'.ret = LastOf(thExecs[thLast'.key]).ret
               /\ thLast'.ret # 0]_vars

\* a suppressed call on a2 returned the promise of the second execution
\* for its class, which had already resolved
C23_Witness ==
    /\ thOptions.variant = "async"
    /\ thLast.inst = "a2"
    /\ ~thLast.executed
    /\ thLast.ret = 2
    /\ Len(thExecs["A.method"]) = 2
    /\ thPromises = <<"pending", "resolved">>

\* C24: every Fallback call invokes the operation exactly once; while the
\* operation has returned a value, resolved or is pending, fallbackFn has
\* not been invoked and the result is the operation's; once it has thrown
\* or rejected, fallbackFn has been invoked exactly once, with the
\* receiver and the argument of the call, and the result is fallbackFn's.
C24_FallbackOnce ==
    \A id \in DOMAIN fbLog :
       /\ fbLog[id].target = 1
       /\ fbLog[id].result \in {"value", "pending", "fallback value",
                                "fallback error"}
       /\ fbLog[id].result \in {"value", "pending"} => fbLog[id].fallback = <<>>
       /\ fbLog[id].result \in {"fallback value", "fallback error"} =>
             fbLog[id].fallback =
                <<[inst |-> fbLog[id].inst, arg |-> fbLog[id].arg]>>
       /\ fbLog[id].result = "pending" <=> id \in fbPending

\* a call on a1 whose operation threw and a call on a2 whose promise
\* rejected: fallbackFn was invoked once for each
C24_Witness ==
    /\ Len(fbLog) = 2
    /\ fbPending = {}
    /\ fbLog[1].inst = "a1" /\ fbLog[1].arg = "x"
    /\ fbLog[2].inst = "a2" /\ fbLog[2].arg = "y"
    /\ fbLog[1].result = "fallback value"
    /\ fbLog[2].result = "fallback value"
    /\ fbLog[2].fallback = <<[inst |-> "a2", arg |-> "y"]>>

\* C25 as stated: whatever the number of cleanup calls on an instance,
\* every handle registered for it is stopped exactly once by the first
\* cleanup call: never before one, never more than once, and once as soon
\* as one cleanup call has been made.
C25_CleanupStopsAllOnce ==
    \A h \in DOMAIN schHandles :
       /\ schHandles[h].stopped <= 1
       /\ schCleanups[schHandles[h].inst] = 0 => schHandles[h].stopped = 0
       /\ schCleanups[schHandles[h].inst] >= 1 => schHandles[h].stopped = 1

\* C26 as stated: after a failed attempt that is retried the wrapper waits
\* the backoff delay, then calls onRetry, then invokes the operation again.
C26_Original ==
    \A i \in DOMAIN retryTrace :
       retryTrace[i].ev = "onRetry" =>
          /\ i > 1
          /\ retryTrace[i - 1].ev = "wait"
          /\ retryTrace[i - 1].n = retryTrace[i].n
          /\ i < Len(retryTrace) => retryTrace[i + 1].ev = "invoke"

\* C26: after a failed attempt that is retried the wrapper calls
\* onRetry(error, attemptNumber), if one is given, at once, then waits the
\* backoff delay, then invokes the operation again: in the trace, onRetry
\* follows the failed invocation, the wait follows onRetry, and the next
\* invocation follows the wait.
C26_RetryOrder ==
    \A i \in DOMAIN retryTrace :
       /\ retryTrace[i].ev = "onRetry" =>
             /\ retryTrace[i - 1].ev = "invoke"
             /\ retryTrace[i - 1].n = retryTrace[i].n
             /\ retryTrace[i].x = Err(retryTrace[i].n)
             /\ i < Len(retryTrace)
             /\ retryTrace[i + 1].ev = "wait"
       /\ retryTrace[i].ev = "wait" =>
             /\ retryTrace[i - 1].ev = IF retryOptions.onRetry THEN "onRetry"
                                       ELSE "invoke"
             /\ retryTrace[i - 1].n = retryTrace[i].n
             /\ i < Len(retryTrace) =>
                   /\ retryTrace[i + 1].ev = "invoke"
                   /\ retryTrace[i + 1].n = retryTrace[i].n + 1
       /\ (retryTrace[i].ev = "invoke" /\ i > 1) => retryTrace[i - 1].ev = "wait"

\* a first attempt failed, onRetry was called, the delay was waited and the
\* second attempt was made
C26_Witness ==
    /\ retryOptions.onRetry
    /\ Len(retryTrace) >= 4
    /\ retryTrace[1].ev = "invoke"
    /\ retryTrace[2].ev = "onRetry"
    /\ retryTrace[3].ev = "wait"
    /\ retryTrace[4].ev = "invoke"

\* C27: the delay waited after the k-th failed attempt, before the k-th
\* retry, is backoff * 2^(k-1) with strategy 'exponential' and backoff with
\* strategy 'fixed'; when an exponential retry is exhausted after
\* maxRetries retries the delays waited add up to
\* backoff * (2^maxRetries - 1).
C27_BackoffDelays ==
    /\ \A i \in DOMAIN retryTrace :
          retryTrace[i].ev = "wait" =>
             retryTrace[i].x =
                IF retryOptions.strategy = "exponential"
                THEN Backoff(retryOptions) * 2 ^ (retryTrace[i].n - 1)
                ELSE Backoff(retryOptions)
    /\ (/\ retryPc = "done"
        /\ retryResult.kind = "rejected"
        /\ retryOptions.strategy = "exponential") =>
          retryElapsed = Backoff(retryOptions) * (2 ^ retryOptions.maxRetries - 1)

\* an exponential retry with backoff 2 and two retries is exhausted: the
\* delays were 2 and 4
C27_Witness ==
    /\ retryOptions.strategy = "exponential"
    /\ retryOptions.maxRetries = 2
    /\ retryOptions.backoff = <<2>>
    /\ retryPc = "done"
    /\ retryResult.kind = "rejected"
    /\ retryElapsed = 6

\* ======================================================================
\* Observable: claims
\* ======================================================================

\* the value of the field before the i-th assignment of the log
ValueBefore(log, field, i) ==
    LET js == {j \in 1..(i - 1) : log[j].field = field}
    IN IF js = {} THEN ObInitial
       ELSE log[CHOOSE j \in js : \A k \in js : k <= j].value

\* the values of the assignments i..last of the log that were made to the
\* field and differ from the value the field had before them, in order
RECURSIVE ChangesOf(_, _, _, _)
ChangesOf(log, field, i, last) ==
    IF i > last THEN <<>>
    ELSE (IF log[i].field = field /\ log[i].value /= ValueBefore(log, field, i)
          THEN <<log[i].value>> ELSE <<>>)
         \o ChangesOf(log, field, i + 1, last)

\* what a function subscribed after s.from assignments, and unsubscribed
\* after s.until assignments if at all, is to receive
Expected(s, log) ==
    <<ValueBefore(log, s.field, s.from + 1)>>
       \o ChangesOf(log, s.field, s.from + 1,
                    IF s.until < 0 THEN Len(log) ELSE s.until)

\* C28: a function subscribed through subscribe<Field> has received the
\* value the field had when it subscribed, followed by every value assigned
\* to that field since, and before its unsubscribe function was first
\* called, that differed from the value the field had before the
\* assignment, in assignment order, and nothing else: nothing after its
\* unsubscribe, nothing from assignments to other fields, and the
\* unsubscribing of another subscriber takes nothing away.
C28_ObservableDelivery ==
    \A id \in DOMAIN obSubs : obSubs[id].got = Expected(obSubs[id], obAssigns)

\* two functions subscribed to one field, the field was assigned a new
\* value, the first function unsubscribed and the field was assigned
\* another value: the second function received both values in order, the
\* first only the first
C28_Witness ==
    /\ Len(obSubs) = 2
    /\ obSubs[1].field = "value" /\ obSubs[2].field = "value"
    /\ obSubs[1].until = 1 /\ obSubs[2].until < 0
    /\ obSubs[1].got = <<"", "test1">>
    /\ obSubs[2].got = <<"", "test1", "">>

\* ======================================================================
\* CircuitBreaker: half-open trials
\* ======================================================================

\* a call that the gate passed in half-open state is still pending
ProbePending(inst) ==
    \E p \in cbPending : p.gate = "half-open" /\ StateCell(p.inst) = StateCell(inst)

\* C29: while the breaker is half-open only one trial call is admitted: a
\* call arriving while the breaker is half-open and a call passed in
\* half-open state is still pending is not passed to the operation.
C29_SingleTrial ==
    [][\A i \in CBInstances :
         (IsCallOn(i) /\ CS(i).state = "half-open" /\ ProbePending(i)) =>
            /\ ~cbLast'.passed
            /\ cbInvoked' = cbInvoked]_vars

\* C30: the breaker goes from half-open to closed only when a call passed
\* in half-open state succeeds; the resolution of a promise whose call was
\* passed while the breaker was closed leaves state and failureCount as
\* they are.
C30_ClosedOnlyByProbe ==
    [][\A i \in CBInstances :
         /\ (CS(i).state = "half-open" /\ CS(i)'.state = "closed") =>
               cbLast'.gate = "half-open"
         /\ (cbLast'.step = "resolve" /\ cbPending' # cbPending
                /\ cbLast'.inst = i /\ cbLast'.gate = "closed") =>
               /\ CS(i)'.state = CS(i).state
               /\ CS(i)'.failures = CS(i).failures]_vars

\* the step handles the failure of a call on instance inst while the
\* breaker is half-open: the operation throws in a call that the gate
\* passed in half-open state, or a promise rejects while the state is
\* half-open
FailsInHalfOpen(inst) ==
    /\ IsFailure
    /\ cbLast'.inst = inst
    /\ \/ cbCalls' = cbCalls + 1 /\ cbLast'.gate = "half-open"
       \/ cbCalls' = cbCalls /\ CS(inst).state = "half-open"

\* C31: when a call fails while the breaker is half-open, failureCount is
\* incremented, lastFailureTimestamp is set to now, the state becomes
\* open and the caller receives the operation's own error; the breaker is
\* then within resetTimeout of its last failure, and a call made while it
\* is so is rejected without invoking the operation.
C31_HalfOpenFailure ==
    [][\A i \in CBInstances :
         /\ FailsInHalfOpen(i) =>
               /\ CS(i)'.failures = CS(i).failures + 1
               /\ CS(i)'.lastFailureTime = now
               /\ CS(i)'.state = "open"
               /\ cbResults'[cbLast'.id] = "error"
               /\ Cooling(i)'
         /\ (IsCallOn(i) /\ Cooling(i)) =>
               /\ cbResults'[cbLast'.id] = "Circuit breaker is open"
               /\ cbInvoked' = cbInvoked]_vars

\* the breaker opened and, after resetTimeout, a call was passed as
\* half-open trial and its operation threw: the breaker is open again
C31_Witness ==
    /\ cbLast.step = "call"
    /\ cbLast.gate = "half-open"
    /\ cbResults[cbLast.id] = "error"
    /\ CS("a1").state = "open"
    /\ CS("a1").lastFailureTime = now
    /\ CS("a1").failures = cbOptions.failureThreshold + 1

\* C32: in every reachable state failureCount is at least failureThreshold
\* while the state is open or half-open, and failureCount is never
\* negative.
C32_OpenImpliesThreshold ==
    \A c \in Cells :
       /\ circuitState[c].failures >= 0
       /\ circuitState[c].state \in {"open", "half-open"} =>
             circuitState[c].failures >= cbOptions.failureThreshold

\* the promise of a call passed while the breaker was closed resolved
\* after the breaker had opened: failureCount is still at the threshold
C32_Witness ==
    /\ cbLast.step = "resolve"
    /\ cbLast.gate = "closed"
    /\ CS("a1").state \in {"open", "half-open"}
    /\ CS("a1").failures >= cbOptions.failureThreshold

\* the step handles the success of a call on instance inst while the
\* breaker is closed: the operation returns in a call that found the
\* breaker closed, or a promise resolves while the state is closed
SucceedsInClosed(inst) ==
    /\ cbLast'.inst = inst
    /\ \/ /\ cbCalls' = cbCalls + 1
          /\ cbLast'.gate = "closed"
          /\ cbResults'[cbLast'.id] = "value"
       \/ /\ cbCalls' = cbCalls
          /\ cbPending' # cbPending
          /\ cbLast'.step = "resolve"
          /\ CS(inst).state = "closed"

\* C33: a success handled while the breaker is closed leaves failureCount,
\* state and lastFailureTimestamp as they are; so failures add up across
\* the successes between them, and the failure that brings failureCount
\* to failureThreshold opens the breaker whatever succeeded before it.
C33_SuccessKeepsCount ==
    [][\A i \in CBInstances :
         /\ SucceedsInClosed(i) => circuitState' = circuitState
         /\ (IsFailure /\ cbLast'.inst = i
                /\ CS(i).failures + 1 >= cbOptions.failureThreshold) =>
               CS(i)'.state = "open"]_vars

\* with failureThreshold 2: a failure, then a success that left
\* failureCount at 1, then the failure that opened the breaker
C33_Witness ==
    /\ cbOptions.failureThreshold = 2
    /\ cbCalls = 3
    /\ cbResults[1] = "error" /\ cbResults[2] = "value" /\ cbResults[3] = "error"
    /\ cbLast.id = 3
    /\ CS("a1").state = "open"
    /\ CS("a1").failures = 2

\* ======================================================================
\* Debounce: timers and errors
\* ======================================================================

\* the key of the timer armed by call id
KeyOfTimer(id) == DebounceKey(dbLog[id].inst)

\* C34: at every moment each key has at most one timer that is armed and
\* has neither fired nor been cancelled, and it is the timer stored under
\* the key in timeoutMap: a call cancels the pending timer of its key
\* before it arms its own.
C34_OneTimerPerKey ==
    /\ \A i \in dbTimers, j \in dbTimers : KeyOfTimer(i) = KeyOfTimer(j) => i = j
    /\ \A i \in dbTimers :
          KeyOfTimer(i) \in DOMAIN timeoutMap /\ timeoutMap[KeyOfTimer(i)] = i

\* two calls for one key, the second before the timer of the first was
\* due: only the timer of the second is armed, and nothing was executed
C34_Witness ==
    /\ Len(dbLog) = 2
    /\ KeyOfTimer(1) = KeyOfTimer(2)
    /\ dbLog[2].at < dbLog[1].at + dbOptions.delay
    /\ dbTimers = {2}
    /\ timeoutMap[KeyOfTimer(2)] = 2
    /\ dbExecs = {}

\* C35: when the operation executed for a debounced call fails, the
\* promise returned by that call is rejected: at once when the operation
\* throws, and once its promise has rejected when the operation of
\* DebounceAsync returns a promise that rejects.
C35_ErrorPassThrough ==
    \A e \in dbExecs :
       /\ e.outcome = "throw" => dbResult[e.call] = "rejected"
       /\ (e.outcome = "promise" /\ e.call \notin dbOps) =>
             dbResult[e.call] \in {"resolved", "rejected"}

\* ======================================================================
\* RateLimited: the edge of the window and the order of the steps
\* ======================================================================

\* the step is a rate-limited call on instance inst
IsRLCallOn(inst) == rlCalls' = rlCalls + 1 /\ rlLast'.inst = inst

\* the timestamps recorded for the key of inst before the step
Recorded(inst) == Timestamps(rateLimitState, Key(inst))

\* C36 as stated: a request recorded at time t counts against the limit
\* of a call at time now whenever t >= now - window: the call is rejected
\* exactly if at least `limit` such requests are recorded, and an admitted
\* call leaves them recorded.
C36_Original ==
    [][\A i \in RLInstances :
         IsRLCallOn(i) =>
            LET counted == SelectSeq(Recorded(i),
                                     LAMBDA t : t >= now - rlOptions.window)
            IN /\ rlLast'.kind = "rejected" <=> Len(counted) >= rlOptions.limit
               /\ rlLast'.kind = "admitted" =>
                     rateLimitState'[Key(i)] = Append(counted, now)]_vars

\* C36: on each call the timestamps that are not newer than now - window
\* are pruned: a request recorded at time t counts against the limit of a
\* call at time now only if t > now - window, and a request recorded at
\* now - window exactly is pruned and no longer counts.  The call is
\* rejected exactly if at least `limit` counted requests are recorded, and
\* an admitted call records the counted requests and its own.
C36_WindowEdge ==
    [][\A i \in RLInstances :
         IsRLCallOn(i) =>
            LET counted == SelectSeq(Recorded(i),
                                     LAMBDA t : t > now - rlOptions.window)
            IN /\ rlLast'.kind = "rejected" <=> Len(counted) >= rlOptions.limit
               /\ rlLast'.kind = "admitted" =>
                     rateLimitState'[Key(i)] = Append(counted, now)]_vars

\* with limit 1, a call at time 0 and a call exactly `window` later: the
\* second is admitted and the request of time 0 is pruned
C36_Witness ==
    /\ rlOptions.limit = 1
    /\ rlCalls = 2
    /\ rlLast.kind = "admitted"
    /\ rlLast.at = rlOptions.window
    /\ admitted[rlLast.key] = <<0, rlOptions.window>>
    /\ rateLimitState[rlLast.key] = <<rlOptions.window>>

\* C37: the timestamp of an admitted call is recorded before the operation
\* is invoked: when the operation of an admitted call throws, the
\* timestamp of the call is recorded for the key all the same, after the
\* requests still in the window.
C37_ThrowConsumesBudget ==
    [][\A i \in RLInstances :
         (IsRLCallOn(i) /\ rlLast'.result = "target threw") =>
            /\ rlLast'.kind = "admitted"
            /\ rlInvoked' = rlInvoked + 1
            /\ Key(i) \in DOMAIN rateLimitState'
            /\ Len(rateLimitState'[Key(i)]) =
                  Len(SelectSeq(Recorded(i), LAMBDA t : t > now - rlOptions.window)) + 1
            /\ rateLimitState'[Key(i)][Len(rateLimitState'[Key(i)])] = now]_vars

\* an admitted call whose operation threw used up the last unit of the
\* budget of its key
C37_Witness ==
    /\ rlLast.kind = "admitted"
    /\ rlLast.result = "target threw"
    /\ rlLast.key \in DOMAIN rateLimitState
    /\ Len(rateLimitState[rlLast.key]) = rlOptions.limit
    /\ rateLimitState[rlLast.key][rlOptions.limit] = now

\* ======================================================================
\* Cached: the tracked keys
\* ======================================================================

\* C38: in every reachable state every entry of the cache has its key in
\* methodCacheKeys; so from an invalidation until the next call of the
\* operation (methodCacheKeys is empty exactly then) the cache holds no
\* entry of the operation.
C38_EntriesTracked ==
    /\ DOMAIN cache \subseteq methodCacheKeys
    /\ (cacheEpoch > 0 /\ methodCacheKeys = {}) => DOMAIN cache = {}

\* ======================================================================
\* Retry: success after failures
\* ======================================================================

\* the invocations of the target that have ended in a failure
FailedAttempts ==
    {i \in DOMAIN retryOutcomes : retryOutcomes[i] \in {"throw", "reject"}}

\* the target failed on its first k attempts and succeeded on the next,
\* and no attempt has ended since
SucceededAfter(k) ==
    /\ Len(retryOutcomes) = k + 1
    /\ FailedAttempts = 1..k
    /\ retryOutcomes[k + 1] \in {"return", "resolve"}

\* C39: when the target has failed on its first k attempts, k <=
\* maxRetries, and succeeded on the next, the target has been invoked
\* exactly k+1 times, onRetry (when given) has been called exactly k times,
\* once per failure, the wrapper call has resolved with the value of the
\* attempt that succeeded, and nothing more happens: a success is the last
\* attempt.
C39_SuccessAfterFailures ==
    /\ \A k \in 0..retryOptions.maxRetries :
          SucceededAfter(k) =>
             /\ Len(Invocations) = k + 1
             /\ attempts = k + 1
             /\ retryOptions.onRetry =>
                   OnRetryCalls = [j \in 1..k |-> Event("onRetry", j, Err(j))]
             /\ ~retryOptions.onRetry => OnRetryCalls = <<>>
             /\ retryResult = [kind |-> "resolved", val |-> Val(k + 1)]
             /\ retryPc = "done"
             /\ retryTimer = -1
    /\ \A i \in DOMAIN retryOutcomes :
          i < Len(retryOutcomes) => i \in FailedAttempts

\* with three retries allowed and onRetry given, the target threw, then
\* rejected, then resolved: three invocations, two calls of onRetry
C39_Witness ==
    /\ retryOptions.maxRetries = 3
    /\ retryOptions.onRetry
    /\ retryOutcomes = <<"throw", "reject", "resolve">>
    /\ Len(OnRetryCalls) = 2
    /\ retryResult = [kind |-> "resolved", val |-> Val(3)]

\* ======================================================================
\* Timeout: synchronous throw
\* ======================================================================

\* C40: when the operation of a Timeout call throws synchronously, the
\* call itself throws the operation's error instead of returning a
\* promise, no timer is armed for it, and nothing about the call changes
\* later.
C40_SyncThrowEscapes ==
    \A id \in DOMAIN tmOp :
       tmOp[id] = "threw" =>
          /\ tmResult[id] = [state |-> "threw", value |-> Err(id),
                             message |-> "", at |-> tmAt[id]]
          /\ id \notin tmTimers

\* the operation of the first call threw, and the time at which a timer
\* of that call would have fired has passed
C40_Witness ==
    /\ Len(tmOp) >= 1
    /\ tmOp[1] = "threw"
    /\ tmResult[1].state = "threw"
    /\ now >= tmAt[1] + tmOptions
    /\ tmTimers = {}

====
